---- MODULE Spec2Model ----
(***************************************************************************)
(* StitchWyse request-ingress layer: the in-memory rate limiter, the       *)
(* origin gate, the bounded body reader, the checkout / webhook /          *)
(* custom-order handlers and the collaborators they call.                   *)
(*                                                                         *)
(* Strings are sequences of one-character strings.  A request body is a    *)
(* run-length encoded byte string: a sequence of runs [b, n], n copies of  *)
(* the symbol b.  Handlers are cut into atomic steps at their awaits       *)
(* (JavaScript runs a handler to its next await without interleaving).     *)
(***************************************************************************)
EXTENDS Integers, Sequences, FiniteSets, TLC

VARIABLES
    env,           \* process.env, fixed for the life of the process
    now,           \* Date.now()
    rateLimitMap,  \* rate-limit.ts: identifier -> RateLimitEntry
    rlCfg,         \* the RateLimitConfig of the direct rateLimit calls
    rlLast,        \* observation: the last rateLimit call and its result
    rlWin,         \* observation: per identifier, the caller's view of its window
    stripeClient,  \* stripe.ts: the module-level client cell
    sessions,      \* the payment provider: idempotency key -> session id
    nextSession,   \* the payment provider: the next fresh session id
    req,           \* the requests in flight, one record per slot
    probe          \* a function of the code called on its own: name, arguments, result

vars == <<env, now, rateLimitMap, rlCfg, rlLast, rlWin, stripeClient,
          sessions, nextSession, req, probe>>

----------------------------------------------------------------------------
(* Bounds of the model *)

MaxTime == 4
MaxCalls == 4
MaxLimit == 2
MaxWindow == 2
MaxOrders == 6
MaxSkew == 1
MaxTokens == 3
MaxClientCalls == 4

----------------------------------------------------------------------------
(* Values *)

EmptyMap == [x \in {} |-> 0]

Min(a, b) == IF a < b THEN a ELSE b

\* no function is called on its own
NoProbe == [fn |-> "none", args |-> <<>>, applied |-> FALSE, result |-> <<>>]

----------------------------------------------------------------------------
(* rate-limit.ts *)

RateLimitIds == {<<"a">>, <<"b">>}

HasEntry(map, identifier) == identifier \in DOMAIN map

\* if (!entry || entry.resetAt < now)
WindowExpired_strict(entry, t) == entry.resetAt <= t

WindowExpired(entry, t) == entry.resetAt < t

\* a store that writes the value under every key of the map
MapSet_shared(map, k, val) == [x \in DOMAIN map \cup {k} |-> val]

MapSet(map, k, val) == [x \in DOMAIN map \cup {k} |-> IF x = k THEN val ELSE map[x]]

\* entry.count++
IncrementCount_lost(entry) == entry

IncrementCount(entry) == [entry EXCEPT !.count = @ + 1]

\* the whole of rateLimit(identifier, config): the new map and the result
RateLimit(map, identifier, config, t) ==
    IF ~HasEntry(map, identifier) \/ WindowExpired(map[identifier], t)
    THEN LET newEntry == [count |-> 1, resetAt |-> t + config.window]
         IN  [map |-> MapSet(map, identifier, newEntry),
              result |-> [allowed |-> TRUE,
                          remaining |-> config.requests - 1,
                          resetAt |-> newEntry.resetAt]]
    ELSE LET entry == IncrementCount(map[identifier])
         IN  [map |-> MapSet(map, identifier, entry),
              result |-> IF entry.count > config.requests
                         THEN [allowed |-> FALSE, remaining |-> 0,
                               resetAt |-> entry.resetAt]
                         ELSE [allowed |-> TRUE,
                               remaining |-> config.requests - entry.count,
                               resetAt |-> entry.resetAt]]

\* a sweep that also deletes the entry whose resetAt is the sweep time
SweepMap_inclusive(map, t) ==
    LET keep == {k \in DOMAIN map : ~(map[k].resetAt <= t)}
    IN  [k \in keep |-> map[k]]

\* the setInterval callback: delete every entry with resetAt < now
SweepMap(map, t) ==
    LET keep == {k \in DOMAIN map : ~(map[k].resetAt < t)}
    IN  [k \in keep |-> map[k]]

\* The caller's view of an identifier's window, kept apart from the entry:
\* the first call opens a window of length config.window, calls up to its end
\* are inside it, the first call after its end opens the next.  allowedAt
\* is the time of every allowed call no more than a window before the last
\* call, oldest first; unswept is the entry the identifier would have had
\* no sweep ever run.
NoWin == [start |-> -1, k |-> 0, total |-> 0, firstResetAt |-> -1, allowed |-> 0,
          allowedAt |-> <<>>, unswept |-> [count |-> 0, resetAt |-> -1]]

\* the identifier's call on a map that is never swept
UnsweptCall(w, config, t) ==
    RateLimit(IF w.total = 0 THEN EmptyMap ELSE [x \in {"id"} |-> w.unswept], "id", config, t)

\* the allowed calls no more than a window before this one, this one included
\* when it was allowed: an older one shares no interval of that length with
\* a call still to come
AllowedLately(allowedAt, config, t, result) ==
    LET lately(at) == t - at <= config.window
        kept == SelectSeq(allowedAt, lately)
    IN  IF result.allowed THEN Append(kept, t) ELSE kept

WinAfterCall(w, config, t, result) ==
    IF w.k = 0 \/ t > w.start + config.window
    THEN [start |-> t, k |-> 1, total |-> w.total + 1,
          firstResetAt |-> result.resetAt,
          allowed |-> IF result.allowed THEN 1 ELSE 0,
          allowedAt |-> AllowedLately(w.allowedAt, config, t, result),
          unswept |-> UnsweptCall(w, config, t).map["id"]]
    ELSE [w EXCEPT !.k = @ + 1, !.total = @ + 1,
                   !.allowed = @ + (IF result.allowed THEN 1 ELSE 0),
                   !.allowedAt = AllowedLately(@, config, t, result),
                   !.unswept = UnsweptCall(w, config, t).map["id"]]

WinOf(wins, identifier) ==
    IF identifier \in DOMAIN wins THEN wins[identifier] ELSE NoWin

\* the rateLimit calls made so far, over all identifiers
RECURSIVE CallsOf(_, _)
CallsOf(wins, ids) ==
    IF ids = {} THEN 0
    ELSE LET identifier == CHOOSE x \in ids : TRUE
         IN  wins[identifier].total + CallsOf(wins, ids \ {identifier})

Calls(wins) == CallsOf(wins, DOMAIN wins)

NoCall == [id |-> <<>>, t |-> -1, allowed |-> FALSE, remaining |-> 0, resetAt |-> -1,
           k |-> 0, count |-> 0, requests |-> 0]

\* what the caller of rateLimit saw: the result, the entry's count after the
\* call, and which call of the caller's window it was
ObserveCall(identifier, config, t, out, w) ==
    [id |-> identifier, t |-> t, allowed |-> out.result.allowed,
     remaining |-> out.result.remaining, resetAt |-> out.result.resetAt,
     k |-> w.k, count |-> out.map[identifier].count, requests |-> config.requests]

----------------------------------------------------------------------------
(* Strings: sequences of one-character strings.  An optional value (a header,
   an environment variable) is <<>> when absent and <<s>> when present. *)

Absent == <<>>

Some(s) == <<s>>

IsPresent(o) == Len(o) > 0

Digits == {"0", "1", "2", "3", "4", "5", "6", "7", "8", "9"}

Letters == {"a", "b", "c", "d", "e", "f", "g", "h", "i", "j", "k", "l", "m",
            "n", "o", "p", "q", "r", "s", "t", "u", "v", "w", "x", "y", "z",
            "A", "B", "C", "D", "E", "F", "G", "H", "I", "J", "K", "L", "M",
            "N", "O", "P", "Q", "R", "S", "T", "U", "V", "W", "X", "Y", "Z"}

IsSpace(c) == c \in {" ", "\t", "\n"}

IsAlnum(c) == c \in Letters \cup Digits

RECURSIVE TrimStart(_)
TrimStart(s) ==
    IF Len(s) > 0 /\ IsSpace(Head(s)) THEN TrimStart(Tail(s)) ELSE s

RECURSIVE TrimEnd(_)
TrimEnd(s) ==
    IF Len(s) > 0 /\ IsSpace(s[Len(s)]) THEN TrimEnd(SubSeq(s, 1, Len(s) - 1)) ELSE s

\* String.prototype.trim
Trim(s) == TrimEnd(TrimStart(s))

\* String.prototype.slice(0, n)
Slice(s, n) == SubSeq(s, 1, Min(n, Len(s)))

StartsWith(s, p) == Len(s) >= Len(p) /\ SubSeq(s, 1, Len(p)) = p

\* String.prototype.split(","), then .map(trim).filter(length > 0)
RECURSIVE SplitComma(_)
SplitComma(s) ==
    IF \E i \in 1..Len(s) : s[i] = ","
    THEN LET i == CHOOSE j \in 1..Len(s) : s[j] = "," /\ \A m \in 1..(j - 1) : s[m] # ","
         IN  <<SubSeq(s, 1, i - 1)>> \o SplitComma(SubSeq(s, i + 1, Len(s)))
    ELSE <<s>>

RECURSIVE TrimNonEmpty(_)
TrimNonEmpty(parts) ==
    IF parts = <<>> THEN <<>>
    ELSE LET h == Trim(Head(parts))
         IN  (IF Len(h) > 0 THEN <<h>> ELSE <<>>) \o TrimNonEmpty(Tail(parts))

ParseCsv(input) == TrimNonEmpty(SplitComma(input))

\* a comparison that would accept any value that begins with a member
Includes_prefix(list, x) ==
    \E i \in 1..Len(list) :
        Len(list[i]) <= Len(x) /\ SubSeq(x, 1, Len(list[i])) = list[i]

Includes(list, x) == \E i \in 1..Len(list) : list[i] = x

\* process.env.X?.trim(): Absent stays absent
EnvTrim(o) == IF IsPresent(o) THEN Some(Trim(o[1])) ELSE Absent

\* `!value` of an optional string: undefined, or the empty string
Falsy(o) == ~IsPresent(o) \/ Len(o[1]) = 0

----------------------------------------------------------------------------
(* lib/cors.ts *)

\* parseAllowedOrigins(): the trimmed, non-empty entries of ALLOWED_ORIGIN
ParseAllowedOrigins(e) ==
    LET raw == EnvTrim(e.ALLOWED_ORIGIN)
    IN  IF Falsy(raw) THEN <<>> ELSE ParseCsv(raw[1])

IsOriginAllowed_noHeaderAllowed(e, originHeader) ==
    LET configuredOrigins == ParseAllowedOrigins(e)
    IN  IF Len(configuredOrigins) = 0 THEN TRUE
        ELSE IF Falsy(originHeader) THEN TRUE
        ELSE Includes(configuredOrigins, originHeader[1])

\* isOriginAllowed(request)
IsOriginAllowed(e, originHeader) ==
    LET configuredOrigins == ParseAllowedOrigins(e)
    IN  IF Len(configuredOrigins) = 0 THEN TRUE
        ELSE IF Falsy(originHeader) THEN FALSE
        ELSE Includes(configuredOrigins, originHeader[1])

----------------------------------------------------------------------------
(* JSON values, tagged: null, bool, num (a fraction <<n, d>>, d >= 1), str (a
   string), arr (a sequence of values), obj (a sequence of entries [k, val] in
   insertion order).  Undef is what reading a missing property gives. *)

Undef == [t |-> "undef", v |-> 0]

JNull == [t |-> "null", v |-> 0]

JBool(b) == [t |-> "bool", v |-> b]

JNum(n, d) == [t |-> "num", v |-> <<n, d>>]

JInt(n) == JNum(n, 1)

JStr(s) == [t |-> "str", v |-> s]

JArr(items) == [t |-> "arr", v |-> items]

JObj(entries) == [t |-> "obj", v |-> entries]

Entry(k, val) == [k |-> k, val |-> val]


\* property names
K_priceId == <<"p", "r", "i", "c", "e", "I", "d">>

K_quantity == <<"q", "u", "a", "n", "t", "i", "t", "y">>

K_items == <<"i", "t", "e", "m", "s">>

K_customerEmail == <<"c", "u", "s", "t", "o", "m", "e", "r", "E", "m", "a", "i", "l">>

K_metadata == <<"m", "e", "t", "a", "d", "a", "t", "a">>

K_type == <<"t", "y", "p", "e">>

K_id == <<"i", "d">>

K_data == <<"d", "a", "t", "a">>

K_object == <<"o", "b", "j", "e", "c", "t">>

\* object[k]
Get(o, k) ==
    IF \E i \in 1..Len(o.v) : o.v[i].k = k
    THEN o.v[CHOOSE i \in 1..Len(o.v) : o.v[i].k = k].val
    ELSE Undef

\* !x || typeof x !== "object" || Array.isArray(x)
NotPlainObject(x) == x.t # "obj"

NumIsInteger(x) == x.v[1] % x.v[2] = 0

NumLess(x, k) == x.v[1] < k * x.v[2]

NumGreater(x, k) == x.v[1] > k * x.v[2]

----------------------------------------------------------------------------
(* The rate limiter called directly, with one configuration per run *)

NoRequests == [r \in {} |-> 0]

\* process.env with nothing set
NoEnv ==
    [ALLOWED_ORIGIN |-> Absent, SUCCESS_URL |-> Absent, CANCEL_URL |-> Absent,
     ALLOWED_STRIPE_PRICE_IDS |-> Absent, ENFORCE_STRIPE_PRICE_ALLOWLIST |-> Absent,
     NODE_ENV |-> Absent, DEFAULT_CURRENCY |-> Absent, STRIPE_SECRET_KEY |-> Absent,
     STRIPE_WEBHOOK_SECRET |-> Absent, TURNSTILE_SECRET_KEY |-> Absent,
     ORDER_EMAIL |-> Absent, RESEND_API_KEY |-> Absent]

InitRateLimit ==
    /\ env = NoEnv
    /\ now = 0
    /\ rateLimitMap = EmptyMap
    /\ rlCfg \in [requests : 0..MaxLimit, window : 1..MaxWindow]
    /\ rlLast = NoCall
    /\ rlWin = EmptyMap
    /\ stripeClient = Absent
    /\ sessions = EmptyMap
    /\ nextSession = 1
    /\ probe = NoProbe
    /\ req = NoRequests

\* Date.now() moves on by d
Tick(d, horizon) ==
    /\ now + d <= horizon
    /\ now' = now + d
    /\ UNCHANGED <<probe, env, rateLimitMap, rlCfg, rlLast, rlWin, stripeClient,
                   sessions, nextSession, req>>

\* rateLimit(identifier, rlCfg)
CallRateLimit(identifier) ==
    /\ WinOf(rlWin, identifier).total < MaxCalls
    /\ LET out == RateLimit(rateLimitMap, identifier, rlCfg, now)
           w == WinAfterCall(WinOf(rlWin, identifier), rlCfg, now, out.result)
       IN  /\ rateLimitMap' = out.map
           /\ rlWin' = MapSet(rlWin, identifier, w)
           /\ rlLast' = ObserveCall(identifier, rlCfg, now, out, w)
    /\ UNCHANGED <<probe, env, now, rlCfg, stripeClient, sessions, nextSession, req>>

\* the setInterval callback of rate-limit.ts
Sweep ==
    /\ rateLimitMap' = SweepMap(rateLimitMap, now)
    /\ UNCHANGED <<probe, env, now, rlCfg, rlLast, rlWin, stripeClient, sessions,
                   nextSession, req>>

NextRateLimit ==
    \/ Tick(1, MaxTime)
    \/ \E identifier \in RateLimitIds : CallRateLimit(identifier)
    \/ Sweep

SpecRateLimit == InitRateLimit /\ [][NextRateLimit]_vars

\* C3: with a limit N >= 1, the calls 1..N of a caller's window are allowed and
\* call N+1 is denied with a resetAt that is not before the call and is the
\* resetAt call 1 returned.
C3_QuotaThenDenied ==
    (rlLast.k >= 1 /\ rlLast.requests >= 1) =>
        /\ (rlLast.k <= rlLast.requests => rlLast.allowed)
        /\ (rlLast.k = rlLast.requests + 1 =>
                /\ ~rlLast.allowed
                /\ rlLast.resetAt >= rlLast.t
                /\ rlLast.resetAt = rlWin[rlLast.id].firstResetAt)

C3_Witness ==
    /\ rlLast.requests = 2
    /\ rlLast.k = 3
    /\ ~rlLast.allowed
    /\ rlLast.t > rlWin[rlLast.id].start

\* C4: a call is allowed only if the entry's count after it is within the
\* limit, whatever the limit (0 included), and remaining is never negative.
C4_AllowedOnlyWithinLimit ==
    rlLast.k >= 1 =>
        /\ (rlLast.allowed => rlLast.count <= rlLast.requests)
        /\ rlLast.remaining >= 0

----------------------------------------------------------------------------
(* Request bodies.  A text is a sequence of runs [b, n]: n bytes of the symbol
   b.  A symbol is white space, bytes that are no JSON, or a JSON value (the
   bytes of its serialisation).  Adjacent runs of one symbol are one run. *)

Ws == [t |-> "ws", v |-> 0]

Garbage == [t |-> "garbage", v |-> 0]

Run(b, n) == [b |-> b, n |-> n]

RECURSIVE TextLen(_)
TextLen(text) == IF text = <<>> THEN 0 ELSE Head(text).n + TextLen(Tail(text))

\* Buffer.concat of two buffers
Concat(x, y) ==
    IF x = <<>> THEN y
    ELSE IF y = <<>> THEN x
    ELSE IF x[Len(x)].b = y[1].b
         THEN SubSeq(x, 1, Len(x) - 1) \o <<Run(y[1].b, x[Len(x)].n + y[1].n)>> \o Tail(y)
         ELSE x \o y

IsDocRun(r) == r.b.t # "ws"

\* JSON.parse(text): one JSON value, white space around it allowed
JsonParse(text) ==
    LET docs == SelectSeq(text, IsDocRun)
    IN  IF Len(docs) = 1 /\ docs[1].b.t # "garbage"
        THEN [ok |-> TRUE, value |-> docs[1].b]
        ELSE [ok |-> FALSE, value |-> Undef]

\* A chunk of a body stream: data, a read that rejects, or a read that
\* resolves with neither done nor a value.
DataChunk(text) == [kind |-> "data", text |-> text]

ErrorChunk == [kind |-> "error", text |-> <<>>]

NoValueChunk == [kind |-> "novalue", text |-> <<>>]

RECURSIVE StreamHasError(_)
StreamHasError(stream) ==
    IF stream = <<>> THEN FALSE
    ELSE Head(stream).kind = "error" \/ StreamHasError(Tail(stream))

RECURSIVE StreamText(_)
StreamText(stream) ==
    IF stream = <<>> THEN <<>>
    ELSE Concat(Head(stream).text, StreamText(Tail(stream)))

----------------------------------------------------------------------------
(* parseContentLength (webhook/route.ts and custom-order/route.ts) *)

DigitSeq == <<"0", "1", "2", "3", "4", "5", "6", "7", "8", "9">>

DigitVal(c) == (CHOOSE i \in 1..10 : DigitSeq[i] = c) - 1

AllDigits(s) == Len(s) >= 1 /\ \A i \in 1..Len(s) : s[i] \in Digits

RECURSIVE StripZeros(_)
StripZeros(s) == IF Len(s) > 1 /\ Head(s) = "0" THEN StripZeros(Tail(s)) ELSE s

RECURSIVE DecimalValue(_)
DecimalValue(s) ==
    IF s = <<>> THEN 0 ELSE DecimalValue(SubSeq(s, 1, Len(s) - 1)) * 10 + DigitVal(s[Len(s)])

\* s <= u for digit strings of one length
RECURSIVE DigitsLeq(_, _)
DigitsLeq(s, u) ==
    IF s = <<>> THEN TRUE
    ELSE IF DigitVal(Head(s)) # DigitVal(Head(u)) THEN DigitVal(Head(s)) < DigitVal(Head(u))
    ELSE DigitsLeq(Tail(s), Tail(u))

\* Number.MAX_SAFE_INTEGER
MaxSafeDigits == <<"9", "0", "0", "7", "1", "9", "9", "2", "5", "4", "7", "4", "0", "9", "9", "1">>

\* Number.isSafeInteger(Number.parseInt(s, 10)) for a digit string
IsSafeInteger(s) ==
    LET d == StripZeros(s)
    IN  Len(d) < Len(MaxSafeDigits) \/ (Len(d) = Len(MaxSafeDigits) /\ DigitsLeq(d, MaxSafeDigits))

\* every length of ten digits or more is kept as this one value
SaturatedBytes == 1000000000

\* Number.parseInt(s, 10) for a digit string
ParseInt(s) ==
    LET d == StripZeros(s)
    IN  IF Len(d) > 9 THEN SaturatedBytes ELSE DecimalValue(d)

NoLength == [present |-> FALSE, bytes |-> 0, invalid |-> FALSE]

InvalidLength == [present |-> FALSE, bytes |-> 0, invalid |-> TRUE]

\* a parser that would take a header it cannot read for a missing one
ParseContentLength_lenient(headerValue) ==
    IF ~IsPresent(headerValue) THEN NoLength
    ELSE LET trimmed == Trim(headerValue[1])
         IN  IF ~AllDigits(trimmed) \/ ~IsSafeInteger(trimmed) THEN NoLength
             ELSE [present |-> TRUE, bytes |-> ParseInt(trimmed), invalid |-> FALSE]

\* {bytes, invalid}; present = FALSE is bytes: null
ParseContentLength(headerValue) ==
    IF ~IsPresent(headerValue) THEN NoLength
    ELSE LET trimmed == Trim(headerValue[1])
         IN  IF ~AllDigits(trimmed) THEN InvalidLength
             ELSE IF ~IsSafeInteger(trimmed) THEN InvalidLength
             ELSE [present |-> TRUE, bytes |-> ParseInt(trimmed), invalid |-> FALSE]

MAX_WEBHOOK_BODY_BYTES == 256 * 1024

MAX_REQUEST_BYTES == 3 * 1024 * 1024

\* contentLength.bytes !== null && contentLength.bytes > maxBytes
DeclaredTooLarge(contentLength, maxBytes) ==
    contentLength.present /\ contentLength.bytes > maxBytes

----------------------------------------------------------------------------
(* lib/stripe-price-allowlist.ts *)

UpperSeq == <<"A", "B", "C", "D", "E", "F", "G", "H", "I", "J", "K", "L", "M", "N", "O", "P", "Q", "R", "S", "T", "U", "V", "W", "X", "Y", "Z">>

LowerSeq == <<"a", "b", "c", "d", "e", "f", "g", "h", "i", "j", "k", "l", "m", "n", "o", "p", "q", "r", "s", "t", "u", "v", "w", "x", "y", "z">>

LowerChar(c) ==
    IF \E i \in 1..26 : UpperSeq[i] = c
    THEN LowerSeq[CHOOSE i \in 1..26 : UpperSeq[i] = c]
    ELSE c

\* String.prototype.toLowerCase
ToLowerCase(s) == [i \in 1..Len(s) |-> LowerChar(s[i])]

PricePrefix == <<"p", "r", "i", "c", "e", "_">>

\* PRICE_ID_PATTERN = /^price_[a-zA-Z0-9]+$/
MatchesPricePattern(s) ==
    /\ StartsWith(s, PricePrefix)
    /\ Len(s) > Len(PricePrefix)
    /\ \A i \in (Len(PricePrefix) + 1)..Len(s) : IsAlnum(s[i])

\* validateStripePriceId: "" when the id passes, else the error
ValidateStripePriceId(priceId) ==
    LET trimmed == Trim(priceId)
    IN  IF Len(trimmed) = 0 THEN "priceId must be a non-empty string."
        ELSE IF ~MatchesPricePattern(trimmed)
             THEN "priceId must look like a Stripe Price ID (price_...)."
        ELSE ""

EnvOr(o, default) == IF IsPresent(o) THEN Trim(o[1]) ELSE default

\* getStripePriceAllowlist(): {enforce, allowedPriceIds}
GetStripePriceAllowlist(e) ==
    LET allowlistRaw == EnvOr(e.ALLOWED_STRIPE_PRICE_IDS, <<>>)
        enforceRaw == EnvOr(e.ENFORCE_STRIPE_PRICE_ALLOWLIST, <<>>)
    IN  [allowedPriceIds |-> ParseCsv(allowlistRaw),
         enforce |-> IF Len(enforceRaw) > 0
                     THEN ToLowerCase(enforceRaw) = <<"t", "r", "u", "e">>
                     ELSE e.NODE_ENV = Some(<<"p", "r", "o", "d", "u", "c", "t", "i", "o", "n">>)]

----------------------------------------------------------------------------
(* lib/stripe.ts *)

\* a getStripeClient that constructs a client on every call
GetStripeClient_fresh(e, cell) ==
    IF Falsy(e.STRIPE_SECRET_KEY) THEN [threw |-> TRUE, cell |-> cell]
    ELSE [threw |-> FALSE, cell |-> Some(e.STRIPE_SECRET_KEY[1])]

\* getStripeClient(): throws without STRIPE_SECRET_KEY, else the client cell
\* after the call (constructed when it was null)
GetStripeClient(e, cell) ==
    IF Falsy(e.STRIPE_SECRET_KEY) THEN [threw |-> TRUE, cell |-> cell]
    ELSE IF ~IsPresent(cell) THEN [threw |-> FALSE, cell |-> Some(e.STRIPE_SECRET_KEY[1])]
    ELSE [threw |-> FALSE, cell |-> cell]

----------------------------------------------------------------------------
(* checkout/route.ts: validation *)

MAX_QUANTITY == 99

MAX_LINE_ITEMS == 50

MAX_METADATA_KEY_LENGTH == 40

MAX_METADATA_VALUE_LENGTH == 500

MAX_METADATA_ENTRIES == 50

NoError == [msg |-> "", index |-> -1]

ItemError(index, msg) == [msg |-> msg, index |-> index]

\* typeof quantity !== "number" || !Number.isInteger(quantity) ||
\* quantity < 1 || quantity > MAX_QUANTITY
QuantityInvalid_noUpper(quantity) ==
    \/ quantity.t # "num"
    \/ ~NumIsInteger(quantity)
    \/ NumLess(quantity, 1)

QuantityInvalid(quantity) ==
    \/ quantity.t # "num"
    \/ ~NumIsInteger(quantity)
    \/ NumLess(quantity, 1)
    \/ NumGreater(quantity, MAX_QUANTITY)

\* one turn of the loop over itemsInput.entries(): the error, or none
ValidateItem(index, item) ==
    IF NotPlainObject(item) THEN ItemError(index, "must be an object.")
    ELSE LET priceId == Get(item, K_priceId)
             quantity == Get(item, K_quantity)
         IN  IF priceId.t # "str" THEN ItemError(index, "priceId must be a string.")
             ELSE IF ValidateStripePriceId(priceId.v) # ""
                  THEN ItemError(index, ValidateStripePriceId(priceId.v))
             ELSE IF QuantityInvalid(quantity)
                  THEN ItemError(index, "quantity must be an integer between 1 and 99.")
             ELSE NoError

\* parsedItems.push({priceId: priceId.trim(), quantity})
ParsedItem(item) ==
    [priceId |-> Trim(Get(item, K_priceId).v),
     quantity |-> Get(item, K_quantity).v[1] \div Get(item, K_quantity).v[2]]

Invalid(err) == [ok |-> FALSE, error |-> err,
                 payload |-> [items |-> <<>>, customerEmail |-> Absent, metadata |-> Undef]]

\* validatePayload(input) of the checkout route
ValidatePayload(input) ==
    IF input.t # "obj" THEN Invalid(ItemError(-1, "Body must be a JSON object."))
    ELSE LET itemsInput == Get(input, K_items)
             customerEmailInput == Get(input, K_customerEmail)
             metadataInput == Get(input, K_metadata)
         IN  IF itemsInput.t # "arr" \/ Len(itemsInput.v) = 0
             THEN Invalid(ItemError(-1, "items must be a non-empty array."))
             ELSE IF Len(itemsInput.v) > MAX_LINE_ITEMS
             THEN Invalid(ItemError(-1, "items must not exceed 50 line items."))
             ELSE IF \E i \in 1..Len(itemsInput.v) : ValidateItem(i - 1, itemsInput.v[i]) # NoError
             THEN LET first == CHOOSE i \in 1..Len(itemsInput.v) :
                                  /\ ValidateItem(i - 1, itemsInput.v[i]) # NoError
                                  /\ \A j \in 1..(i - 1) :
                                        ValidateItem(j - 1, itemsInput.v[j]) = NoError
                  IN  Invalid(ValidateItem(first - 1, itemsInput.v[first]))
             ELSE IF customerEmailInput.t # "undef" /\ customerEmailInput.t # "str"
             THEN Invalid(ItemError(-1, "customerEmail must be a string when provided."))
             ELSE IF metadataInput.t # "undef" /\ metadataInput.t # "obj"
             THEN Invalid(ItemError(-1, "metadata must be an object when provided."))
             ELSE [ok |-> TRUE, error |-> NoError,
                   payload |->
                     [items |-> [i \in 1..Len(itemsInput.v) |-> ParsedItem(itemsInput.v[i])],
                      customerEmail |->
                          IF customerEmailInput.t = "str" /\ Len(Trim(customerEmailInput.v)) > 0
                          THEN Some(Trim(customerEmailInput.v)) ELSE Absent,
                      metadata |-> metadataInput]]

\* rawKey.replace(/[^a-zA-Z0-9_]/g, "_").slice(0, MAX_METADATA_KEY_LENGTH)
SanitizeKey(rawKey) ==
    Slice([i \in 1..Len(rawKey) |->
              IF IsAlnum(rawKey[i]) \/ rawKey[i] = "_" THEN rawKey[i] ELSE "_"],
          MAX_METADATA_KEY_LENGTH)

\* Number.prototype.toString of a natural number
RECURSIVE NatString(_)
NatString(n) ==
    IF n < 10 THEN <<DigitSeq[n + 1]>>
    ELSE NatString(n \div 10) \o <<DigitSeq[(n % 10) + 1]>>

\* the decimal digits of r / d, r < d, at most k of them
RECURSIVE FractionDigits(_, _, _)
FractionDigits(r, d, k) ==
    IF r = 0 \/ k = 0 THEN <<>>
    ELSE <<DigitSeq[((r * 10) \div d) + 1]>> \o FractionDigits((r * 10) % d, d, k - 1)

\* String(x) of the number n / d (16 fraction digits at most)
NumString(n, d) ==
    LET a == IF n < 0 THEN -n ELSE n
    IN  (IF n < 0 THEN <<"-">> ELSE <<>>)
        \o NatString(a \div d)
        \o (IF a % d = 0 THEN <<>> ELSE <<".">> \o FractionDigits(a % d, d, 16))

\* String(rawValue); an array is its elements joined by commas, null and
\* undefined elements as nothing
RECURSIVE StringOf(_)
RECURSIVE JoinStrings(_)
JoinStrings(items) ==
    IF items = <<>> THEN <<>>
    ELSE (IF Head(items).t \in {"null", "undef"} THEN <<>> ELSE StringOf(Head(items)))
         \o (IF Len(items) > 1 THEN <<",">> \o JoinStrings(Tail(items)) ELSE <<>>)

StringOf(x) ==
    CASE x.t = "str" -> x.v
      [] x.t = "bool" -> (IF x.v THEN <<"t", "r", "u", "e">> ELSE <<"f", "a", "l", "s", "e">>)
      [] x.t = "num" -> NumString(x.v[1], x.v[2])
      [] x.t = "arr" -> JoinStrings(x.v)
      [] x.t = "null" -> <<"n", "u", "l", "l">>
      [] x.t = "undef" -> <<"u", "n", "d", "e", "f", "i", "n", "e", "d">>
      [] OTHER -> <<"[", "o", "b", "j", "e", "c", "t", " ", "O", "b", "j", "e", "c", "t", "]">>

SourceKey == <<"s", "o", "u", "r", "c", "e">>

\* sanitized[key] = value on a Record: an existing key keeps its place
PutEntry(entries, k, val) ==
    IF \E i \in 1..Len(entries) : entries[i].k = k
    THEN [i \in 1..Len(entries) |-> IF entries[i].k = k THEN Entry(k, val) ELSE entries[i]]
    ELSE Append(entries, Entry(k, val))

\* sanitized["__proto__"] = <a string> sets no property: the setter of
\* Object.prototype ignores a value that is neither an object nor null
ProtoKey == <<"_", "_", "p", "r", "o", "t", "o", "_", "_">>

SanitizeMetadata_unforced(input) ==
    IF input.t = "obj"
    THEN [i \in 1..Len(input.v) |->
             Entry(SanitizeKey(input.v[i].k),
                   Slice(StringOf(input.v[i].val), MAX_METADATA_VALUE_LENGTH))]
    ELSE <<>>

RECURSIVE SanitizeEntries(_, _)
SanitizeEntries(input, sanitized) ==
    IF input = <<>> \/ Len(sanitized) >= MAX_METADATA_ENTRIES - 1 THEN sanitized
    ELSE LET rawValue == Head(input).val
             key == SanitizeKey(Head(input).k)
         IN  IF \/ rawValue.t \in {"null", "undef"} \/ Len(key) = 0 \/ key = SourceKey
                \/ key = ProtoKey
             THEN SanitizeEntries(Tail(input), sanitized)
             ELSE SanitizeEntries(Tail(input),
                     PutEntry(sanitized, key, Slice(StringOf(rawValue), MAX_METADATA_VALUE_LENGTH)))

\* sanitizeMetadata(input)
SanitizeMetadata(input) ==
    PutEntry(IF input.t = "obj" THEN SanitizeEntries(input.v, <<>>) ELSE <<>>,
             SourceKey, <<"f", "r", "a", "m", "e", "r">>)

\* new URL(value) succeeds: the value starts with a scheme and a colon (what
\* the URL parser asks of the rest, per scheme, is left out)
UrlParses(s) ==
    /\ Len(s) >= 2
    /\ s[1] \in Letters
    /\ \E i \in 2..Len(s) :
          /\ s[i] = ":"
          /\ \A j \in 1..(i - 1) : IsAlnum(s[j]) \/ s[j] \in {"+", "-", "."}

GetRequiredUrl(o) ==
    LET value == EnvTrim(o)
    IN  IF Falsy(value) THEN Absent
        ELSE IF UrlParses(value[1]) THEN value ELSE Absent

----------------------------------------------------------------------------
(* Requests and the per-request state of a handler *)

\* a Request: its headers (optional strings), whether it has a body, the
\* chunks its body stream will deliver
BaseRequest ==
    [origin |-> Absent, contentType |-> Absent, contentLength |-> Absent,
     signature |-> Absent, idempotencyKey |-> Absent, forwardedFor |-> Absent,
     realIp |-> Absent, hasBody |-> TRUE, stream |-> <<>>]

NoResult == [allowed |-> FALSE, remaining |-> 0, resetAt |-> -1]

\* what fetch(TURNSTILE_VERIFY_URL) settled with: nothing yet, a rejection,
\* or a Response with a status and a body
NoResponse == [kind |-> "none", status |-> 0, body |-> <<>>]

\* the result of verifyTurnstileToken: not yet there, returned, or thrown
NoVerdict == [state |-> "none", verified |-> FALSE, errorCodes |-> <<>>]

\* pc: idle, then the await the handler is suspended at, then done (a response
\* was returned) or threw (an exception left the handler).  reads ... routed
\* record what the handler did; status, message, sessionId are the response.
Idle ==
    [ep |-> "none", pc |-> "idle", request |-> BaseRequest,
     stream |-> <<>>, chunks |-> <<>>, totalBytes |-> 0, locked |-> FALSE,
     cancelled |-> FALSE, bodyResult |-> "none", ip |-> <<>>, rl |-> NoResult, payload |-> Undef,
     key |-> Absent, captchaToken |-> Absent, event |-> Undef, rawBody |-> <<>>,
     captcha |-> [response |-> NoResponse, result |-> NoVerdict],
     reads |-> 0, rlCalls |-> 0, providerCalls |-> 0, providerOutcome |-> "none",
     lineItemCalls |-> 0,
     captchaCalls |-> 0, emailCalls |-> 0, verifyCalls |-> 0,
     verified |-> FALSE, routed |-> "none", warned |-> FALSE,
     status |-> 0, message |-> "", errorIndex |-> -1, sessionId |-> 0]

NewRequest(ep, request) ==
    [Idle EXCEPT !.ep = ep, !.pc = "start", !.request = request, !.stream = request.stream]

\* return NextResponse.json({error: message}, {status})
Respond(q, status, message) ==
    [q EXCEPT !.pc = "done", !.status = status, !.message = message]

\* an exception no try block of the handler catches
Throw(q) == [q EXCEPT !.pc = "threw"]

\* a handler that would call sessions.create again from its catch block
SessionCreateFailed_retry(q) ==
    [q EXCEPT !.pc = "provider", !.providerCalls = Min(@ + 1, 2)]

\* the catch block around sessions.create: the error is logged, the response
\* is fixed
SessionCreateFailed(q) == Respond(q, 500, "Failed to create checkout session.")

\* what a rejected sessions.create carries in error.message
ProviderErrors == {"card_declined", "rate_limited", "connection_error"}

\* how sessions.create settles: a session with a url, one without, a rejection
ProviderOutcomes == {"session", "nourl"} \cup ProviderErrors

----------------------------------------------------------------------------
(* checkout/route.ts: POST *)

\* the handler up to `await request.json()`
CheckoutEnter(e, q) ==
    IF ~IsOriginAllowed(e, q.request.origin) THEN Respond(q, 403, "Forbidden origin.")
    ELSE IF \/ ~IsPresent(GetRequiredUrl(e.SUCCESS_URL))
            \/ ~IsPresent(GetRequiredUrl(e.CANCEL_URL))
         THEN Respond(q, 500,
                "Server misconfigured: SUCCESS_URL and CANCEL_URL must be valid absolute URLs.")
    ELSE [q EXCEPT !.pc = "json"]

RECURSIVE InvalidIds(_, _)
InvalidIds(items, allowed) ==
    IF items = <<>> THEN <<>>
    ELSE (IF Includes(allowed, Head(items).priceId) THEN <<>> ELSE <<Head(items).priceId>>)
         \o InvalidIds(Tail(items), allowed)

\* the decision of the `if (allowlist.enforce) ... else if ...` block:
\* "misconfigured" (500), "rejected" (400), "warned" or "passed"
AllowlistDecision_advisory(allowlist, items) ==
    IF Len(allowlist.allowedPriceIds) > 0 /\ Len(InvalidIds(items, allowlist.allowedPriceIds)) > 0
    THEN "warned" ELSE "passed"

AllowlistDecision(allowlist, items) ==
    IF allowlist.enforce
    THEN IF Len(allowlist.allowedPriceIds) = 0 THEN "misconfigured"
         ELSE IF Len(InvalidIds(items, allowlist.allowedPriceIds)) > 0 THEN "rejected"
         ELSE "passed"
    ELSE IF Len(allowlist.allowedPriceIds) > 0
            /\ Len(InvalidIds(items, allowlist.allowedPriceIds)) > 0
         THEN "warned"
    ELSE "passed"

\* idempotencyKeyHeader && idempotencyKeyHeader.trim().length > 0
\*   ? idempotencyKeyHeader.trim().slice(0, 255) : undefined
IdempotencyKey_raw(header) == header

IdempotencyKey(header) ==
    IF IsPresent(header) /\ Len(Trim(header[1])) > 0
    THEN Some(Slice(Trim(header[1]), 255))
    ELSE Absent

DefaultCurrencyKey == <<"d", "e", "f", "a", "u", "l", "t", "_", "c", "u", "r", "r", "e", "n", "c", "y">>

\* (process.env.DEFAULT_CURRENCY?.trim() || "gbp").slice(0, MAX_METADATA_VALUE_LENGTH)
DefaultCurrency(e) ==
    Slice(IF Falsy(EnvTrim(e.DEFAULT_CURRENCY)) THEN <<"g", "b", "p">> ELSE EnvTrim(e.DEFAULT_CURRENCY)[1],
          MAX_METADATA_VALUE_LENGTH)

SessionParams(e, payload) ==
    [line_items |-> payload.items,
     customer_email |-> payload.customerEmail,
     metadata |-> PutEntry(SanitizeMetadata(payload.metadata), DefaultCurrencyKey,
                           DefaultCurrency(e))]

\* the handler from the resolution of request.json() to the provider call:
\* the request's state and the client cell
CheckoutAfterJson(e, cell, q) ==
    LET q1 == [q EXCEPT !.reads = @ + 1, !.stream = <<>>,
                       !.totalBytes = TextLen(StreamText(q.stream))]
        parsed == JsonParse(StreamText(q.stream))
        validation == ValidatePayload(parsed.value)
        decision == AllowlistDecision(GetStripePriceAllowlist(e), validation.payload.items)
        client == GetStripeClient(e, cell)
    IN  IF ~q.request.hasBody \/ StreamHasError(q.stream) \/ ~parsed.ok
        THEN [q |-> Respond(q1, 400, "Invalid JSON request body."), cell |-> cell]
        ELSE IF ~validation.ok
        THEN [q |-> [Respond(q1, 400, validation.error.msg)
                        EXCEPT !.errorIndex = validation.error.index],
              cell |-> cell]
        ELSE IF decision = "misconfigured"
        THEN [q |-> Respond(q1, 500,
                      "Server misconfigured: ENFORCE_STRIPE_PRICE_ALLOWLIST is enabled but ALLOWED_STRIPE_PRICE_IDS is empty."),
              cell |-> cell]
        ELSE IF decision = "rejected"
        THEN [q |-> Respond(q1, 400, "Cart contains invalid items."), cell |-> cell]
        ELSE LET q2 == [q1 EXCEPT !.payload = SessionParams(e, validation.payload),
                                  !.warned = (decision = "warned"),
                                  !.key = IdempotencyKey(q.request.idempotencyKey)]
             IN  IF client.threw
                 THEN [q |-> SessionCreateFailed(q2), cell |-> cell]
                 ELSE [q |-> [q2 EXCEPT !.pc = "provider", !.providerCalls = @ + 1],
                       cell |-> client.cell]

\* the provider's sessions.create(params, {idempotencyKey}): a key it has seen
\* gets the session it got before, anything else a fresh session
ProviderSession(known, fresh, key) ==
    IF IsPresent(key) /\ key[1] \in DOMAIN known THEN known[key[1]] ELSE fresh

ProviderRemember(known, key, id) ==
    IF IsPresent(key) THEN MapSet(known, key[1], id) ELSE known

\* POST /api/checkout arrives and runs to its first await
CheckoutPost(r, request) ==
    /\ req[r].pc = "idle"
    /\ req' = [req EXCEPT ![r] = CheckoutEnter(env, NewRequest("checkout", request))]
    /\ UNCHANGED <<probe, env, now, rateLimitMap, rlCfg, rlLast, rlWin, stripeClient,
                   sessions, nextSession>>

\* request.json() settles; the handler runs to sessions.create
CheckoutBody(r) ==
    /\ req[r].ep = "checkout"
    /\ req[r].pc = "json"
    /\ LET out == CheckoutAfterJson(env, stripeClient, req[r])
       IN  /\ req' = [req EXCEPT ![r] = out.q]
           /\ stripeClient' = out.cell
    /\ UNCHANGED <<probe, env, now, rateLimitMap, rlCfg, rlLast, rlWin, sessions, nextSession>>

\* sessions.create settles: a session with a url, a session without one, or
\* a rejection
CheckoutProviderReturns(r, outcome) ==
    /\ req[r].ep = "checkout"
    /\ req[r].pc = "provider"
    /\ LET q == [req[r] EXCEPT !.providerOutcome = outcome]
           id == ProviderSession(sessions, nextSession, q.key)
       IN  IF outcome \in ProviderErrors
           THEN /\ req' = [req EXCEPT ![r] = SessionCreateFailed(q)]
                /\ UNCHANGED <<sessions, nextSession>>
           ELSE /\ sessions' = ProviderRemember(sessions, q.key, id)
                /\ nextSession' = IF id = nextSession THEN nextSession + 1 ELSE nextSession
                /\ req' = [req EXCEPT ![r] =
                             IF outcome = "nourl"
                             THEN Respond(q, 500,
                                    "Stripe session was created without a redirect URL.")
                             ELSE [Respond(q, 200, "") EXCEPT !.sessionId = id]]
    /\ UNCHANGED <<probe, env, now, rateLimitMap, rlCfg, rlLast, rlWin, stripeClient>>

----------------------------------------------------------------------------
(* readRequestBodyWithLimit (webhook/route.ts and custom-order/route.ts) *)

\* request.body?.getReader(): without a body the result is {ok: true, body: ""}
ReaderOpen(q) ==
    IF ~q.request.hasBody THEN [q EXCEPT !.bodyResult = "ok"]
    ELSE [q EXCEPT !.locked = TRUE, !.pc = "read"]

\* a comparison that would let one chunk past the ceiling through
OverLimit_late(totalBytes, maxBytes) == totalBytes > maxBytes + 1

\* totalBytes > maxBytes
OverLimit(totalBytes, maxBytes) == totalBytes > maxBytes

\* one `await reader.read()` settles, and the loop runs to its next read or to
\* the function's return (the finally block releases the lock)
ReadStep(q, maxBytes) ==
    LET q1 == [q EXCEPT !.reads = @ + 1]
        chunk == Head(q.stream)
        total == q.totalBytes + TextLen(chunk.text)
    IN  IF q.stream = <<>>
        THEN [q1 EXCEPT !.bodyResult = "ok", !.locked = FALSE]
        ELSE IF chunk.kind = "error"
        THEN [q1 EXCEPT !.bodyResult = "invalid", !.locked = FALSE, !.stream = Tail(@)]
        ELSE IF chunk.kind = "novalue"
        THEN [q1 EXCEPT !.stream = Tail(@)]
        ELSE IF OverLimit(total, maxBytes)
        THEN [q1 EXCEPT !.totalBytes = total, !.cancelled = TRUE, !.locked = FALSE,
                        !.bodyResult = "too_large", !.stream = Tail(@)]
        ELSE [q1 EXCEPT !.totalBytes = total, !.chunks = Concat(@, chunk.text),
                        !.stream = Tail(@)]

Bad8 == [t |-> "bad8", v |-> 0]

Fffd == [t |-> "fffd", v |-> 0]

\* Buffer.toString("utf8"), then the bytes of that string: each byte that is
\* not UTF-8 has become U+FFFD, three bytes
RECURSIVE Utf8String(_)
Utf8String(text) ==
    IF text = <<>> THEN <<>>
    ELSE Concat(<<IF Head(text).b = Bad8 THEN Run(Fffd, 3 * Head(text).n) ELSE Head(text)>>,
                Utf8String(Tail(text)))

----------------------------------------------------------------------------
(* webhook/route.ts *)

\* getWebhookSecret(): the trimmed secret, absent when not set or blank
GetWebhookSecret_blankKept(e) ==
    IF Falsy(e.STRIPE_WEBHOOK_SECRET) THEN Absent ELSE EnvTrim(e.STRIPE_WEBHOOK_SECRET)

GetWebhookSecret(e) ==
    IF Falsy(EnvTrim(e.STRIPE_WEBHOOK_SECRET)) THEN Absent ELSE EnvTrim(e.STRIPE_WEBHOOK_SECRET)

\* a Stripe-Signature header value: empty, or the signature of a payload
\* under a secret
EmptySignature == [kind |-> "empty", body |-> <<>>, secret |-> <<>>]

Sign(body, secret) == [kind |-> "mac", body |-> body, secret |-> secret]

SignatureVerifies_any(rawBody, signature, secret) == signature.kind = "mac"

\* stripe.webhooks.constructEvent: the signature check
SignatureVerifies(rawBody, signature, secret) ==
    signature = Sign(rawBody, secret)

\* stripe.webhooks.constructEvent(rawBody, signature, webhookSecret): throws
\* unless the signature verifies, and then parses the payload
ConstructEvent(rawBody, signature, secret) ==
    IF SignatureVerifies(rawBody, signature, secret) /\ JsonParse(rawBody).ok
    THEN [threw |-> FALSE, event |-> JsonParse(rawBody).value]
    ELSE [threw |-> TRUE, event |-> Undef]

TypeCompleted == <<"c", "h", "e", "c", "k", "o", "u", "t", ".", "s", "e", "s", "s", "i", "o", "n", ".", "c", "o", "m", "p", "l", "e", "t", "e", "d">>

TypeSucceeded == <<"p", "a", "y", "m", "e", "n", "t", "_", "i", "n", "t", "e", "n", "t", ".", "s", "u", "c", "c", "e", "e", "d", "e", "d">>

\* x.prop: undefined on a value that is no object, a TypeError on null
Prop(x, k) == IF x.t = "obj" THEN Get(x, k) ELSE Undef

PropThrows(x) == x.t \in {"null", "undef"}

Truthy(x) ==
    CASE x.t = "str" -> Len(x.v) > 0
      [] x.t = "num" -> x.v[1] # 0
      [] x.t = "bool" -> x.v
      [] x.t \in {"obj", "arr"} -> TRUE
      [] OTHER -> FALSE

\* switch (event.type): the request's state when the switch is left or
\* suspended at listLineItems
RouteEvent(q, event) ==
    LET type == Prop(event, K_type)
        data == Prop(event, K_data)
        object == Prop(data, K_object)
    IN  IF PropThrows(event) THEN Throw(q)
        ELSE IF type = JStr(TypeCompleted)
        THEN IF PropThrows(data) \/ PropThrows(object) THEN Throw(q)
             ELSE IF Truthy(Prop(object, K_id))
                  THEN [q EXCEPT !.pc = "lineItems", !.lineItemCalls = @ + 1]
             ELSE [Respond(q, 200, "") EXCEPT !.routed = "checkout.session.completed"]
        ELSE IF type = JStr(TypeSucceeded)
        THEN IF PropThrows(data) \/ PropThrows(object) THEN Throw(q)
             ELSE [Respond(q, 200, "") EXCEPT !.routed = "payment_intent.succeeded"]
        ELSE [Respond(q, 200, "") EXCEPT !.routed = "webhook_unhandled_event"]

\* the handler from the return of readRequestBodyWithLimit on
WebhookAfterBody(e, cell, q) ==
    LET rawBody == Utf8String(q.chunks)
        client == GetStripeClient(e, cell)
        q1 == [q EXCEPT !.verifyCalls = @ + 1, !.rawBody = rawBody]
        made == ConstructEvent(rawBody, q.request.signature[1], GetWebhookSecret(e)[1])
    IN  IF q.bodyResult = "too_large"
        THEN [q |-> Respond(q, 413, "Payload too large."), cell |-> cell]
        ELSE IF q.bodyResult = "invalid"
        THEN [q |-> Respond(q, 400, "Invalid webhook request body."), cell |-> cell]
        ELSE IF client.threw
        THEN [q |-> Throw(q), cell |-> cell]
        ELSE IF made.threw
        THEN [q |-> Respond(q1, 400, "Invalid webhook signature."), cell |-> client.cell]
        ELSE [q |-> RouteEvent([q1 EXCEPT !.verified = TRUE, !.event = made.event],
                               made.event),
              cell |-> client.cell]

\* the handler up to its first await
WebhookEnter(e, cell, q) ==
    LET contentLength == ParseContentLength(q.request.contentLength)
        opened == ReaderOpen(q)
    IN  IF ~IsPresent(GetWebhookSecret(e))
        THEN [q |-> Respond(q, 500, "Server misconfigured: missing STRIPE_WEBHOOK_SECRET."),
              cell |-> cell]
        ELSE IF ~IsPresent(q.request.signature) \/ q.request.signature[1] = EmptySignature
        THEN [q |-> Respond(q, 400, "Missing Stripe-Signature header."), cell |-> cell]
        ELSE IF contentLength.invalid
        THEN [q |-> Respond(q, 400, "Invalid Content-Length header."), cell |-> cell]
        ELSE IF DeclaredTooLarge(contentLength, MAX_WEBHOOK_BODY_BYTES)
        THEN [q |-> Respond(q, 413, "Payload too large."), cell |-> cell]
        ELSE IF opened.pc = "read" THEN [q |-> opened, cell |-> cell]
        ELSE WebhookAfterBody(e, cell, opened)

\* POST /api/webhook arrives and runs to its first await
WebhookPost(r, request) ==
    /\ req[r].pc = "idle"
    /\ LET out == WebhookEnter(env, stripeClient, NewRequest("webhook", request))
       IN  /\ req' = [req EXCEPT ![r] = out.q]
           /\ stripeClient' = out.cell
    /\ UNCHANGED <<probe, env, now, rateLimitMap, rlCfg, rlLast, rlWin, sessions, nextSession>>

\* a read of the webhook body settles
WebhookRead(r) ==
    /\ req[r].ep = "webhook"
    /\ req[r].pc = "read"
    /\ LET q == ReadStep(req[r], MAX_WEBHOOK_BODY_BYTES)
           out == WebhookAfterBody(env, stripeClient, q)
       IN  IF q.bodyResult = "none"
           THEN /\ req' = [req EXCEPT ![r] = q]
                /\ UNCHANGED stripeClient
           ELSE /\ req' = [req EXCEPT ![r] = out.q]
                /\ stripeClient' = out.cell
    /\ UNCHANGED <<probe, env, now, rateLimitMap, rlCfg, rlLast, rlWin, sessions, nextSession>>

\* safeListCheckoutLineItems settles (a rejection is caught and logged), and
\* the event is logged
WebhookLineItemsReturn(r) ==
    /\ req[r].ep = "webhook"
    /\ req[r].pc = "lineItems"
    /\ req' = [req EXCEPT ![r] =
                 [Respond(req[r], 200, "") EXCEPT !.routed = "checkout.session.completed"]]
    /\ UNCHANGED <<probe, env, now, rateLimitMap, rlCfg, rlLast, rlWin, stripeClient,
                   sessions, nextSession>>

----------------------------------------------------------------------------
(* custom-order/route.ts: validation *)

MAX_DESIGN_IMAGE_BYTES == 2 * 1024 * 1024

MAX_CAPTCHA_TOKEN_LENGTH == 2048

MAX_NAME_LENGTH == 100

MAX_EMAIL_LENGTH == 254

MAX_PRODUCT_FIELD_LENGTH == 100

MAX_COLOR_LENGTH == 64

MAX_COLORS == 10

IsWordChar(c) == IsAlnum(c) \/ c = "_"

NotAngle(c) == c \notin {"<", ">"}

\* .replace(/[<>]/g, "")
RemoveAngles(s) == SelectSeq(s, NotAngle)

JavascriptScheme == <<"j", "a", "v", "a", "s", "c", "r", "i", "p", "t", ":">>

\* the pattern, letter case ignored, is in s at position i
MatchesAt(s, i, pattern) ==
    /\ i + Len(pattern) - 1 <= Len(s)
    /\ \A j \in 1..Len(pattern) : LowerChar(s[i + j - 1]) = pattern[j]

\* .replace(/javascript:/gi, ""): the text before the first match, and the
\* same of the text after it
RECURSIVE RemoveJavascript(_)
RemoveJavascript(s) ==
    IF \E i \in 1..Len(s) : MatchesAt(s, i, JavascriptScheme)
    THEN LET first == CHOOSE i \in 1..Len(s) :
                         /\ MatchesAt(s, i, JavascriptScheme)
                         /\ \A j \in 1..(i - 1) : ~MatchesAt(s, j, JavascriptScheme)
         IN  SubSeq(s, 1, first - 1)
             \o RemoveJavascript(SubSeq(s, first + Len(JavascriptScheme), Len(s)))
    ELSE s

\* the length of the longest run of word characters of s that starts at i
WordRun(s, i) ==
    CHOOSE n \in 0..(Len(s) - i + 1) :
        /\ \A j \in i..(i + n - 1) : IsWordChar(s[j])
        /\ (i + n > Len(s) \/ ~IsWordChar(s[i + n]))

\* the length of the match of /on\w+=/i at position i of s, 0 when none
HandlerMatch(s, i) ==
    IF /\ i + 3 <= Len(s)
       /\ LowerChar(s[i]) = "o"
       /\ LowerChar(s[i + 1]) = "n"
       /\ WordRun(s, i + 2) >= 1
       /\ i + 2 + WordRun(s, i + 2) <= Len(s)
       /\ s[i + 2 + WordRun(s, i + 2)] = "="
    THEN 2 + WordRun(s, i + 2) + 1
    ELSE 0

\* .replace(/on\w+=/gi, ""): the text before the first match, and the same of
\* the text after it
RECURSIVE RemoveHandlers(_)
RemoveHandlers(s) ==
    IF \E i \in 1..Len(s) : HandlerMatch(s, i) > 0
    THEN LET first == CHOOSE i \in 1..Len(s) :
                         /\ HandlerMatch(s, i) > 0
                         /\ \A j \in 1..(i - 1) : HandlerMatch(s, j) = 0
         IN  SubSeq(s, 1, first - 1)
             \o RemoveHandlers(SubSeq(s, first + HandlerMatch(s, first), Len(s)))
    ELSE s

\* sanitizeInput(input, maxLength)
SanitizeInput(input, maxLength) ==
    Slice(Trim(RemoveHandlers(RemoveJavascript(RemoveAngles(input)))), maxLength)

NoSpaceOrAt(s) == \A i \in 1..Len(s) : ~IsSpace(s[i]) /\ s[i] # "@"

\* EMAIL_REGEX = /^[^\s@]+@[^\s@]+\.[^\s@]+$/
MatchesEmail(s) ==
    \E at \in 2..(Len(s) - 3) :
        /\ s[at] = "@"
        /\ NoSpaceOrAt(SubSeq(s, 1, at - 1))
        /\ NoSpaceOrAt(SubSeq(s, at + 1, Len(s)))
        /\ \E dot \in (at + 2)..(Len(s) - 1) : s[dot] = "."

\* A long string: the characters of `head` and then n times the character
\* `fill` (tag "fill"; a JSON string like any other).
JFill(head, fill, n) == [t |-> "fill", v |-> [head |-> head, fill |-> fill, n |-> n]]

DataPng == <<"d", "a", "t", "a", ":", "i", "m", "a", "g", "e", "/", "p", "n", "g", ";", "b", "a", "s", "e", "6", "4", ",">>

DataJpeg == <<"d", "a", "t", "a", ":", "i", "m", "a", "g", "e", "/", "j", "p", "e", "g", ";", "b", "a", "s", "e", "6", "4", ",">>

IsBase64Char(c) == IsAlnum(c) \/ c \in {"+", "/", "="}

\* Buffer.from(encoded, "base64").byteLength for `count` characters of which
\* none is padding
Base64Bytes(count) == (3 * count) \div 4

\* the characters before the first "="
RECURSIVE BeforePadding(_)
BeforePadding(s) ==
    IF s = <<>> \/ Head(s) = "=" THEN 0 ELSE 1 + BeforePadding(Tail(s))

\* the decoded byte length of the data: URI, or -1 when the pattern
\* /^data:(image\/png|image\/jpeg);base64,([A-Za-z0-9+/=]+)$/ does not match
DecodedImageBytes(x) ==
    LET head == IF x.t = "fill" THEN TrimStart(x.v.head) ELSE Trim(x.v)
        prefix == IF StartsWith(head, DataPng) THEN DataPng
                  ELSE IF StartsWith(head, DataJpeg) THEN DataJpeg ELSE <<>>
        encoded == SubSeq(head, Len(prefix) + 1, Len(head))
        filled == x.t = "fill" /\ x.v.n > 0
    IN  IF prefix = <<>> THEN -1
        ELSE IF \E i \in 1..Len(encoded) : ~IsBase64Char(encoded[i]) THEN -1
        ELSE IF filled /\ ~IsBase64Char(x.v.fill) THEN -1
        ELSE IF Len(encoded) = 0 /\ ~filled THEN -1
        ELSE IF BeforePadding(encoded) < Len(encoded) \/ ~filled \/ x.v.fill = "="
             THEN Base64Bytes(BeforePadding(encoded))
        ELSE Base64Bytes(Len(encoded) + x.v.n)

IsString(x) == x.t \in {"str", "fill"}

IsBlankString(x) ==
    IF x.t = "fill" THEN Len(Trim(x.v.head)) = 0 /\ (x.v.n = 0 \/ IsSpace(x.v.fill))
    ELSE Len(Trim(x.v)) = 0

\* parseDesignImage(input): "undefined", "null" or "image"
ParseDesignImage(input) ==
    IF input.t = "undef" THEN "undefined"
    ELSE IF input.t = "null" THEN "null"
    ELSE IF ~IsString(input) THEN "undefined"
    ELSE IF IsBlankString(input) THEN "null"
    ELSE IF DecodedImageBytes(input) = -1 THEN "undefined"
    ELSE IF DecodedImageBytes(input) = 0 \/ DecodedImageBytes(input) > MAX_DESIGN_IMAGE_BYTES
         THEN "undefined"
    ELSE "image"

K_name == <<"n", "a", "m", "e">>

K_email == <<"e", "m", "a", "i", "l">>

K_productType == <<"p", "r", "o", "d", "u", "c", "t", "T", "y", "p", "e">>

K_colors == <<"c", "o", "l", "o", "r", "s">>

K_orientation == <<"o", "r", "i", "e", "n", "t", "a", "t", "i", "o", "n">>

K_stitchType == <<"s", "t", "i", "t", "c", "h", "T", "y", "p", "e">>

K_designImage == <<"d", "e", "s", "i", "g", "n", "I", "m", "a", "g", "e">>

K_captchaToken == <<"c", "a", "p", "t", "c", "h", "a", "T", "o", "k", "e", "n">>

OrderInvalid(msg) ==
    [ok |-> FALSE, error |-> msg, captchaToken |-> Absent,
     payload |-> [name |-> <<>>, email |-> <<>>, productType |-> <<>>, colors |-> <<>>,
                  orientation |-> <<>>, stitchType |-> <<>>, designImage |-> "undefined"]]

\* the loop over colors: "" or its first error
RECURSIVE ColorsError(_)
ColorsError(colors) ==
    IF colors = <<>> THEN ""
    ELSE IF Head(colors).t # "str" THEN "Each color must be a string."
    ELSE IF Len(SanitizeInput(Head(colors).v, MAX_COLOR_LENGTH)) = 0
         THEN "Each color must be non-empty."
    ELSE ColorsError(Tail(colors))

StringOrEmpty(x) == IF x.t = "str" THEN x.v ELSE <<>>

\* validatePayload(input) of the custom-order route
ValidateOrder(input) ==
    IF input.t # "obj" THEN OrderInvalid("Body must be a JSON object.")
    ELSE LET name == Get(input, K_name)
             email == Get(input, K_email)
             productType == Get(input, K_productType)
             colors == Get(input, K_colors)
             designImage == Get(input, K_designImage)
             rawCaptchaToken == Get(input, K_captchaToken)
         IN  IF name.t # "str" \/ email.t # "str" \/ productType.t # "str"
             THEN OrderInvalid("Missing required fields.")
             ELSE IF \/ Len(Trim(name.v)) = 0
                     \/ Len(Trim(email.v)) = 0
                     \/ Len(Trim(productType.v)) = 0
             THEN OrderInvalid("Missing required fields.")
             ELSE IF ~MatchesEmail(Trim(email.v))
             THEN OrderInvalid("Invalid email format.")
             ELSE IF \/ Len(Trim(name.v)) < 2
                     \/ Len(Trim(name.v)) > MAX_NAME_LENGTH
                     \/ Len(Trim(email.v)) > MAX_EMAIL_LENGTH
                     \/ Len(Trim(productType.v)) > MAX_PRODUCT_FIELD_LENGTH
             THEN OrderInvalid("Invalid field length.")
             ELSE IF colors.t # "arr" \/ Len(colors.v) = 0 \/ Len(colors.v) > MAX_COLORS
             THEN OrderInvalid("Invalid colors selection (1-10 colors required).")
             ELSE IF ColorsError(colors.v) # ""
             THEN OrderInvalid(ColorsError(colors.v))
             ELSE IF designImage.t # "undef" /\ ParseDesignImage(designImage) = "undefined"
             THEN OrderInvalid("Invalid design image payload.")
             ELSE IF /\ rawCaptchaToken.t \notin {"undef", "null"}
                     /\ \/ rawCaptchaToken.t # "str"
                        \/ Len(Trim(rawCaptchaToken.v)) = 0
                        \/ Len(Trim(rawCaptchaToken.v)) > MAX_CAPTCHA_TOKEN_LENGTH
             THEN OrderInvalid("Invalid captcha token.")
             ELSE [ok |-> TRUE, error |-> "",
                   captchaToken |-> IF rawCaptchaToken.t = "str"
                                    THEN Some(Trim(rawCaptchaToken.v)) ELSE Absent,
                   payload |->
                     [name |-> SanitizeInput(Trim(name.v), MAX_NAME_LENGTH),
                      email |-> SanitizeInput(Trim(email.v), MAX_EMAIL_LENGTH),
                      productType |-> SanitizeInput(Trim(productType.v), MAX_PRODUCT_FIELD_LENGTH),
                      colors |-> [i \in 1..Len(colors.v) |->
                                     SanitizeInput(colors.v[i].v, MAX_COLOR_LENGTH)],
                      orientation |-> SanitizeInput(StringOrEmpty(Get(input, K_orientation)),
                                                    MAX_PRODUCT_FIELD_LENGTH),
                      stitchType |-> SanitizeInput(StringOrEmpty(Get(input, K_stitchType)),
                                                   MAX_PRODUCT_FIELD_LENGTH),
                      designImage |-> ParseDesignImage(designImage)]]

----------------------------------------------------------------------------
(* custom-order/route.ts: POST *)

UnknownIp == <<"u", "n", "k", "n", "o", "w", "n">>

\* getClientIp(request)
GetClientIp(request) ==
    LET firstHop == IF IsPresent(request.forwardedFor) /\ Len(request.forwardedFor[1]) > 0
                    THEN Trim(SplitComma(request.forwardedFor[1])[1])
                    ELSE <<>>
    IN  IF Len(firstHop) > 0 THEN Slice(firstHop, 100)
        ELSE IF IsPresent(request.realIp) /\ Len(Trim(request.realIp[1])) > 0
             THEN Slice(Trim(request.realIp[1]), 100)
        ELSE UnknownIp

\* `custom-order:${ip}`
CustomOrderKey(ip) == <<"c", "u", "s", "t", "o", "m", "-", "o", "r", "d", "e", "r", ":">> \o ip

\* { requests: 5, window: 60000 }
CustomOrderRateLimit == [requests |-> 5, window |-> 60000]

ApplicationJson == <<"a", "p", "p", "l", "i", "c", "a", "t", "i", "o", "n", "/", "j", "s", "o", "n">>

\* request.headers.get("content-type")?.toLowerCase() ?? "" starts with
\* "application/json"
IsJsonContentType(contentType) ==
    IsPresent(contentType) /\ StartsWith(ToLowerCase(contentType[1]), ApplicationJson)

\* getTurnstileSecret()
GetTurnstileSecret(e) ==
    IF Falsy(EnvTrim(e.TURNSTILE_SECRET_KEY)) THEN Absent ELSE EnvTrim(e.TURNSTILE_SECRET_KEY)

\* what fetch(TURNSTILE_VERIFY_URL) settles with
NetworkError == [kind |-> "network_error", status |-> 0, body |-> <<>>]

HttpResponse(status, body) == [kind |-> "response", status |-> status, body |-> body]

\* response.ok
ResponseOk(response) == response.status >= 200 /\ response.status <= 299

K_success == <<"s", "u", "c", "c", "e", "s", "s">>

K_errorCodes == <<"e", "r", "r", "o", "r", "-", "c", "o", "d", "e", "s">>

Verdict(verified, errorCodes) ==
    [state |-> "returned", verified |-> verified, errorCodes |-> errorCodes]

VerdictThrown == [state |-> "threw", verified |-> FALSE, errorCodes |-> <<>>]

\* payload.success === true
SuccessIsTrue_truthy(payload) == Truthy(Prop(payload, K_success))

SuccessIsTrue(payload) == Prop(payload, K_success) = JBool(TRUE)

IsStrValue(x) == x.t = "str"

StrOf(x) == x.v

RECURSIVE MapStr(_)
MapStr(items) == IF items = <<>> THEN <<>> ELSE <<StrOf(Head(items))>> \o MapStr(Tail(items))

\* Array.isArray(payload["error-codes"]) ? ....filter(typeof code === "string") : []
ParsedErrorCodes(payload) ==
    IF Prop(payload, K_errorCodes).t = "arr"
    THEN MapStr(SelectSeq(Prop(payload, K_errorCodes).v, IsStrValue))
    ELSE <<>>

\* verifyTurnstileToken from the settling of fetch to `await response.json()`:
\* its result, or NoVerdict when it goes on to read the body
VerifyTurnstileFetched(response) ==
    IF response.kind = "network_error" THEN Verdict(FALSE, <<<<"n", "e", "t", "w", "o", "r", "k", "_", "e", "r", "r", "o", "r">>>>)
    ELSE IF ~ResponseOk(response)
    THEN Verdict(FALSE, <<<<"h", "t", "t", "p", "_">> \o NatString(response.status)>>)
    ELSE NoVerdict

\* verifyTurnstileToken from the settling of response.json() on
VerifyTurnstileParsed(response) ==
    LET parsed == JsonParse(response.body)
    IN  IF ~parsed.ok THEN Verdict(FALSE, <<<<"i", "n", "v", "a", "l", "i", "d", "_", "r", "e", "s", "p", "o", "n", "s", "e">>>>)
        ELSE IF PropThrows(parsed.value) THEN VerdictThrown
        ELSE Verdict(SuccessIsTrue(parsed.value), ParsedErrorCodes(parsed.value))

\* verifyTurnstileToken, for what the collaborator answered
VerifyTurnstileToken(response) ==
    IF VerifyTurnstileFetched(response) # NoVerdict THEN VerifyTurnstileFetched(response)
    ELSE VerifyTurnstileParsed(response)

\* the bodies the verification service can send
TurnstileBodies ==
    {<<Run(JObj(<<Entry(K_success, JBool(TRUE))>>), 16)>>,
     <<Run(Ws, 1), Run(JObj(<<Entry(K_success, JBool(TRUE)),
                              Entry(K_errorCodes, JArr(<<>>))>>), 34)>>,
     <<Run(JObj(<<Entry(K_success, JBool(FALSE)),
                  Entry(K_errorCodes, JArr(<<JStr(<<"t", "i", "m", "e", "o", "u", "t", "-", "o", "r", "-", "d", "u", "p", "l", "i", "c", "a", "t", "e">>), JInt(7)>>))>>), 60)>>,
     <<Run(JObj(<<Entry(K_success, JStr(<<"t", "r", "u", "e">>))>>), 18)>>,
     <<Run(JObj(<<Entry(K_success, JInt(1))>>), 13)>>,
     <<Run(JObj(<<Entry(K_errorCodes, JStr(<<"b", "a", "d">>))>>), 21)>>,
     <<Run(JArr(<<JBool(TRUE)>>), 6)>>,
     <<Run(JBool(TRUE), 4)>>,
     <<Run(JNull, 4)>>,
     <<Run(Garbage, 9)>>,
     <<>>}

TurnstileOutcomes ==
    {NetworkError}
    \cup {HttpResponse(200, body) : body \in TurnstileBodies}
    \cup {HttpResponse(status, <<Run(JObj(<<Entry(K_success, JBool(TRUE))>>), 16)>>) :
            status \in {204, 299, 300, 403, 500, 503}}

\* the handler from the captcha check's success on: ORDER_EMAIL,
\* RESEND_API_KEY, resend.emails.send
OrderSend(e, q) ==
    IF Falsy(EnvTrim(e.ORDER_EMAIL))
    THEN Respond(q, 500, "Server misconfigured: missing ORDER_EMAIL.")
    ELSE IF ~Falsy(EnvTrim(e.RESEND_API_KEY))
    THEN [q EXCEPT !.pc = "email", !.emailCalls = @ + 1]
    ELSE Respond(q, 500, "Server misconfigured: missing RESEND_API_KEY.")

\* the handler from the return of readRequestBodyWithLimit to its next await
OrderAfterBody(e, q) ==
    LET parsed == JsonParse(Utf8String(q.chunks))
        validation == ValidateOrder(parsed.value)
        q1 == [q EXCEPT !.payload = validation.payload,
                       !.captchaToken = validation.captchaToken]
    IN  IF q.bodyResult = "too_large" THEN Respond(q, 413, "Payload too large.")
        ELSE IF q.bodyResult = "invalid" THEN Respond(q, 400, "Invalid request body.")
        ELSE IF ~parsed.ok THEN Respond(q, 400, "Invalid JSON request body.")
        ELSE IF ~validation.ok THEN Respond(q, 400, validation.error)
        ELSE IF IsPresent(GetTurnstileSecret(e))
        THEN IF ~IsPresent(validation.captchaToken)
             THEN Respond(q1, 400, "Captcha verification is required.")
             ELSE [q1 EXCEPT !.pc = "captcha", !.captchaCalls = @ + 1]
        ELSE OrderSend(e, q1)

\* the handler after its rateLimit call, up to its first await
OrderEnter(e, q) ==
    LET contentLength == ParseContentLength(q.request.contentLength)
        opened == ReaderOpen(q)
    IN  IF ~q.rl.allowed THEN Respond(q, 429, "Too many requests. Please try again later.")
        ELSE IF ~IsJsonContentType(q.request.contentType)
        THEN Respond(q, 415, "Unsupported content type. Use application/json.")
        ELSE IF contentLength.invalid THEN Respond(q, 400, "Invalid Content-Length header.")
        ELSE IF DeclaredTooLarge(contentLength, MAX_REQUEST_BYTES)
        THEN Respond(q, 413, "Payload too large.")
        ELSE IF opened.pc = "read" THEN opened
        ELSE OrderAfterBody(e, opened)

\* POST /api/custom-order arrives: getClientIp, rateLimit, and on to the
\* first await
OrderPost(r, request) ==
    /\ req[r].pc = "idle"
    /\ LET ip == GetClientIp(request)
           identifier == CustomOrderKey(ip)
           out == RateLimit(rateLimitMap, identifier, CustomOrderRateLimit, now)
           w == WinAfterCall(WinOf(rlWin, identifier), CustomOrderRateLimit, now, out.result)
           q == [NewRequest("custom-order", request)
                    EXCEPT !.ip = ip, !.rl = out.result, !.rlCalls = @ + 1]
       IN  /\ Calls(rlWin) < MaxOrders
           /\ rateLimitMap' = out.map
           /\ rlWin' = MapSet(rlWin, identifier, w)
           /\ rlLast' = ObserveCall(identifier, CustomOrderRateLimit, now, out, w)
           /\ req' = [req EXCEPT ![r] = OrderEnter(env, q)]
    /\ UNCHANGED <<probe, env, now, rlCfg, stripeClient, sessions, nextSession>>

\* a read of the order's body settles
OrderRead(r) ==
    /\ req[r].ep = "custom-order"
    /\ req[r].pc = "read"
    /\ LET q == ReadStep(req[r], MAX_REQUEST_BYTES)
       IN  req' = [req EXCEPT ![r] = IF q.bodyResult = "none" THEN q
                                     ELSE OrderAfterBody(env, q)]
    /\ UNCHANGED <<probe, env, now, rateLimitMap, rlCfg, rlLast, rlWin, stripeClient,
                   sessions, nextSession>>

\* a handler that would send the order although the captcha was not verified
OrderAfterCaptcha_failOpen(e, q, result) ==
    LET q1 == [q EXCEPT !.captcha.result = result]
    IN  IF result.state = "threw"
        THEN Respond(q1, 500, "Failed to process order. Please try again.")
        ELSE OrderSend(e, [q1 EXCEPT !.verified = result.verified])

\* the handler from the return of verifyTurnstileToken on; an exception in
\* verifyTurnstileToken lands in the catch block of POST
OrderAfterCaptcha(e, q, result) ==
    LET q1 == [q EXCEPT !.captcha.result = result]
    IN  IF result.state = "threw"
        THEN Respond(q1, 500, "Failed to process order. Please try again.")
        ELSE IF ~result.verified THEN Respond(q1, 403, "Captcha verification failed.")
        ELSE OrderSend(e, [q1 EXCEPT !.verified = TRUE])

\* the fetch of verifyTurnstileToken settles
OrderCaptchaReturns(r, response) ==
    /\ req[r].ep = "custom-order"
    /\ req[r].pc = "captcha"
    /\ LET q == [req[r] EXCEPT !.captcha.response = response]
           result == VerifyTurnstileFetched(response)
       IN  req' = [req EXCEPT ![r] =
                     IF result = NoVerdict THEN [q EXCEPT !.pc = "captchaBody"]
                     ELSE OrderAfterCaptcha(env, q, result)]
    /\ UNCHANGED <<probe, env, now, rateLimitMap, rlCfg, rlLast, rlWin, stripeClient,
                   sessions, nextSession>>

\* response.json() of verifyTurnstileToken settles
OrderCaptchaBody(r) ==
    /\ req[r].ep = "custom-order"
    /\ req[r].pc = "captchaBody"
    /\ req' = [req EXCEPT ![r] =
                 OrderAfterCaptcha(env, req[r],
                                   VerifyTurnstileParsed(req[r].captcha.response))]
    /\ UNCHANGED <<probe, env, now, rateLimitMap, rlCfg, rlLast, rlWin, stripeClient,
                   sessions, nextSession>>

\* resend.emails.send settles: it resolves, or it rejects into the catch block
OrderEmailReturns(r, sent) ==
    /\ req[r].ep = "custom-order"
    /\ req[r].pc = "email"
    /\ req' = [req EXCEPT ![r] =
                 IF sent THEN Respond(req[r], 200, "")
                 ELSE Respond(req[r], 500, "Failed to process order. Please try again.")]
    /\ UNCHANGED <<probe, env, now, rateLimitMap, rlCfg, rlLast, rlWin, stripeClient,
                   sessions, nextSession>>

\* a finished request leaves; its slot takes the next one
Recycle(r) ==
    /\ req[r].pc \in {"done", "threw"}
    /\ req' = [req EXCEPT ![r] = Idle]
    /\ UNCHANGED <<probe, env, now, rateLimitMap, rlCfg, rlLast, rlWin, stripeClient,
                   sessions, nextSession>>

----------------------------------------------------------------------------
(* The configurations and the requests of the model *)

OriginA == <<"h", "t", "t", "p", "s", ":", "/", "/", "a", ".", "e", "x", "a", "m", "p", "l", "e">>

OriginC == <<"h", "t", "t", "p", "s", ":", "/", "/", "c", ".", "e", "x", "a", "m", "p", "l", "e">>

\* ALLOWED_ORIGIN: not set, two origins with spaces around them, only separators
AllowedOriginValues ==
    {Absent, Some(<<" ", "h", "t", "t", "p", "s", ":", "/", "/", "a", ".", "e", "x", "a", "m", "p", "l", "e", " ", ",", " ", "h", "t", "t", "p", "s", ":", "/", "/", "b", ".", "e", "x", "a", "m", "p", "l", "e">>), Some(<<" ", ",", " ">>)}

OriginHeaders == {Absent, Some(OriginA), Some(OriginC)}

GoodUrl == <<"h", "t", "t", "p", "s", ":", "/", "/", "a", ".", "e", "x", "a", "m", "p", "l", "e", "/", "o", "k">>

PriceA == <<"p", "r", "i", "c", "e", "_", "1", "A", "b">>

PriceB == <<"p", "r", "i", "c", "e", "_", "2", "C", "d">>

PriceC == <<"p", "r", "i", "c", "e", "_", "3", "E", "f">>

\* a configuration under which every endpoint works and nothing is restricted
HappyEnv ==
    [NoEnv EXCEPT !.SUCCESS_URL = Some(GoodUrl), !.CANCEL_URL = Some(<<" ", "h", "t", "t", "p", "s", ":", "/", "/", "a", ".", "e", "x", "a", "m", "p", "l", "e", "/", "n", "o", " ">>),
                  !.STRIPE_SECRET_KEY = Some(<<"s", "k", "_", "t", "e", "s", "t", "_", "1">>),
                  !.STRIPE_WEBHOOK_SECRET = Some(<<" ", "w", "h", "s", "e", "c", "_", "1", " ">>),
                  !.ORDER_EMAIL = Some(<<"o", "r", "d", "e", "r", "s", "@", "a", ".", "e", "x", "a", "m", "p", "l", "e">>),
                  !.RESEND_API_KEY = Some(<<"r", "e", "_", "1">>)]

UrlEnvs ==
    {[HappyEnv EXCEPT !.SUCCESS_URL = u[1], !.CANCEL_URL = u[2]] :
        u \in {<<Some(GoodUrl), Some(GoodUrl)>>, <<Absent, Some(GoodUrl)>>,
               <<Some(GoodUrl), Some(<<"/", "r", "e", "l", "a", "t", "i", "v", "e">>)>>, <<Some(<<" ", " ">>), Some(GoodUrl)>>}}

AllowlistEnvs ==
    {[HappyEnv EXCEPT !.ENFORCE_STRIPE_PRICE_ALLOWLIST = f, !.NODE_ENV = n,
                      !.ALLOWED_STRIPE_PRICE_IDS = a] :
        f \in {Absent, Some(<<" ", "T", "R", "U", "E", " ">>), Some(<<"f", "a", "l", "s", "e">>), Some(<<"y", "e", "s">>)},
        n \in {Absent, Some(<<"p", "r", "o", "d", "u", "c", "t", "i", "o", "n">>)},
        a \in {Absent, Some(<<"p", "r", "i", "c", "e", "_", "1", "A", "b", ",", " ", "p", "r", "i", "c", "e", "_", "2", "C", "d", ",">>), Some(<<" ", ",", " ">>)}}

LongString(c, n) == [i \in 1..n |-> c]

RestrictedOrigins == Some(<<" ", "h", "t", "t", "p", "s", ":", "/", "/", "a", ".", "e", "x", "a", "m", "p", "l", "e", " ", ",", " ", "h", "t", "t", "p", "s", ":", "/", "/", "b", ".", "e", "x", "a", "m", "p", "l", "e">>)

CheckoutEnvs ==
    {[e EXCEPT !.ALLOWED_ORIGIN = o] : e \in UrlEnvs, o \in AllowedOriginValues}
    \cup {[e EXCEPT !.ALLOWED_ORIGIN = o] : e \in AllowlistEnvs, o \in {Absent, RestrictedOrigins}}
    \cup {[HappyEnv EXCEPT !.STRIPE_SECRET_KEY = k] : k \in {Absent, Some(<<>>)}}
    \cup {[HappyEnv EXCEPT !.DEFAULT_CURRENCY = c] :
            c \in {Some(<<" ", "u", "s", "d", " ">>), Some(<<" ">>),
                   Some(LongString("e", MAX_METADATA_VALUE_LENGTH + 1))}}

WebhookEnvs ==
    {[HappyEnv EXCEPT !.ALLOWED_ORIGIN = o, !.STRIPE_SECRET_KEY = k,
                      !.STRIPE_WEBHOOK_SECRET = w] :
        o \in {Absent, RestrictedOrigins},
        k \in {Absent, Some(<<"s", "k", "_", "t", "e", "s", "t", "_", "1">>)},
        w \in {Absent, Some(<<" ", " ">>), Some(<<" ", "w", "h", "s", "e", "c", "_", "1", " ">>)}}

OrderEnvs ==
    {[HappyEnv EXCEPT !.ALLOWED_ORIGIN = o, !.TURNSTILE_SECRET_KEY = t,
                      !.ORDER_EMAIL = m, !.RESEND_API_KEY = k] :
        o \in {Absent, RestrictedOrigins},
        t \in {Absent, Some(<<"t", "s", "_", "1">>)},
        m \in {Absent, Some(<<"o", "r", "d", "e", "r", "s", "@", "a", ".", "e", "x", "a", "m", "p", "l", "e">>)},
        k \in {Absent, Some(<<"r", "e", "_", "1">>)}}
    \cup {[HappyEnv EXCEPT !.TURNSTILE_SECRET_KEY = Some(<<" ", " ">>)],
          [HappyEnv EXCEPT !.TURNSTILE_SECRET_KEY = Some(<<"t", "s", "_", "1">>), !.ORDER_EMAIL = Some(<<" ">>)],
          [HappyEnv EXCEPT !.RESEND_API_KEY = Some(<<" ">>)]}

\* a body stream that delivers the serialisation of doc, `size` bytes, in one chunk
OneChunk(doc, size) == <<DataChunk(<<Run(doc, size)>>)>>

\* checkout bodies
Item(priceId, quantity) == JObj(<<Entry(K_priceId, priceId), Entry(K_quantity, quantity)>>)

GoodItem == Item(JStr(PriceA), JInt(2))

Cart(items) == JObj(<<Entry(K_items, JArr(items))>>)

\* n items, all good but the one at position i
CartWith(n, i, item) == Cart([j \in 1..n |-> IF j = i THEN item ELSE GoodItem])

Quantities ==
    {JInt(0), JInt(1), JInt(MAX_QUANTITY), JInt(MAX_QUANTITY + 1), JInt(-1), JInt(150),
     JNum(3, 2), JNum(199, 2), JStr(<<"2">>), JNull, Undef, JBool(TRUE)}

PriceIds ==
    {JStr(PriceA), JStr(PriceC), JStr(<<" ", "p", "r", "i", "c", "e", "_", "2", "C", "d", " ">>), JStr(<<"p", "r", "i", "c", "e", "_">>), JStr(<<"p", "r", "i", "c", "e", "_", "1", "-", "b">>),
     JStr(<<"s", "k", "u", "_", "1">>), JStr(<<"P", "r", "i", "c", "e", "_", "1", "A", "b">>), JStr(<<>>), JStr(<<" ", " ">>), JInt(7), Undef}

OddItems ==
    {Item(JStr(PriceA), q) : q \in Quantities}
    \cup {Item(p, JInt(1)) : p \in PriceIds}
    \cup {Item(JStr(<<"s", "k", "u", "_", "1">>), JInt(0)), JNull, JStr(<<"i", "t", "e", "m">>), JArr(<<>>)}

PlainCart == Cart(<<GoodItem, Item(JStr(PriceB), JInt(1))>>)

CheckoutDocs ==
    {CartWith(n, n, item) : n \in {1, 2}, item \in OddItems}
    \cup {CartWith(2, 1, item) : item \in {Item(JStr(PriceC), JInt(1)), Item(JStr(PriceA), JInt(0))}}
    \cup {CartWith(MAX_LINE_ITEMS, MAX_LINE_ITEMS, item) :
            item \in {GoodItem, Item(JStr(PriceC), JInt(1)), Item(JStr(PriceA), JInt(MAX_QUANTITY + 1))}}
    \cup {CartWith(MAX_LINE_ITEMS + 1, 1, GoodItem), PlainCart,
          Cart(<<>>), JObj(<<>>), JObj(<<Entry(K_items, JStr(<<"x">>))>>), JNull, JArr(<<>>),
          JInt(3), Garbage,
          JObj(<<Entry(K_items, JArr(<<GoodItem>>)), Entry(K_customerEmail, JInt(1))>>),
          JObj(<<Entry(K_items, JArr(<<GoodItem>>)), Entry(K_customerEmail, JStr(<<" ", "a", "@", "b", ".", "c", " ">>))>>),
          JObj(<<Entry(K_items, JArr(<<GoodItem>>)), Entry(K_metadata, JArr(<<>>))>>),
          JObj(<<Entry(K_items, JArr(<<GoodItem>>)),
                 Entry(K_metadata, JObj(<<Entry(<<"s", "o", "u", "r", "c", "e">>, JStr(<<"e", "v", "i", "l">>)),
                                          Entry(<<"o", "r", "d", "e", "r", " ", "i", "d">>, JStr(<<"4", "2">>))>>))>>)}

\* checkout bodies with a metadata object
MetaCart(entries) ==
    JObj(<<Entry(K_items, JArr(<<GoodItem>>)), Entry(K_metadata, JObj(entries))>>)

\* n entries k1: "1", k2: "2", ...
NumberedEntries(n) == [i \in 1..n |-> Entry(<<"k">> \o NatString(i), JStr(NatString(i)))]

MixedEntries ==
    <<Entry(<<"s", "o", "u", "r", "c", "e">>, JStr(<<"e", "v", "i", "l">>)), Entry(<<"S", "o", "u", "r", "c", "e">>, JStr(<<"S">>)),
      Entry(<<"s", "o", "u", " ", "r", "c", "e">>, JStr(<<"s">>)), Entry(<<>>, JStr(<<"e", "m", "p", "t", "y">>)),
      Entry(<<"_", "_", "p", "r", "o", "t", "o", "_", "_">>, JStr(<<"p">>)), Entry(<<"d", "e", "f", "a", "u", "l", "t", "_", "c", "u", "r", "r", "e", "n", "c", "y">>, JStr(<<"u", "s", "d">>)),
      Entry(<<"n">>, JInt(5)), Entry(<<"f">>, JNum(-5, 2)), Entry(<<"b">>, JBool(FALSE)),
      Entry(<<"a">>, JArr(<<JInt(1), JNull, JStr(<<"x">>)>>)), Entry(<<"o">>, JObj(<<>>)),
      Entry(<<"z">>, JNull), Entry(<<"o", "r", "d", "e", "r", " ", "i", "d", "!">>, JStr(<<"4", "2">>)),
      Entry(<<"o", "r", "d", "e", "r", "-", "i", "d", "?">>, JStr(<<"4", "3">>))>>

MetadataDocs ==
    {MetaCart(NumberedEntries(n)) : n \in {MAX_METADATA_ENTRIES - 2, MAX_METADATA_ENTRIES - 1,
                                           MAX_METADATA_ENTRIES, MAX_METADATA_ENTRIES + 10}}
    \cup {MetaCart(MixedEntries),
          MetaCart(<<>>),
          MetaCart(<<Entry(<<"s", "o", "u", "r", "c", "e">>, JStr(<<"e", "v", "i", "l">>))>> \o NumberedEntries(MAX_METADATA_ENTRIES - 2)),
          MetaCart(NumberedEntries(MAX_METADATA_ENTRIES - 2)
                   \o <<Entry(<<"d", "e", "f", "a", "u", "l", "t", "_", "c", "u", "r", "r", "e", "n", "c", "y">>, JStr(<<"u", "s", "d">>)), Entry(<<"l", "a", "t", "e">>, JStr(<<"x">>))>>),
          MetaCart(<<Entry(LongString("k", MAX_METADATA_KEY_LENGTH + 1),
                           JStr(LongString("v", MAX_METADATA_VALUE_LENGTH + 1))),
                     Entry(LongString("-", MAX_METADATA_KEY_LENGTH + 2),
                           JStr(LongString("v", MAX_METADATA_VALUE_LENGTH)))>>)}

\* a body far larger than any ceiling, its length declared
HugeStream ==
    <<DataChunk(<<Run(PlainCart, 64)>>), DataChunk(<<Run(Ws, 1000000000)>>),
      DataChunk(<<Run(Ws, 1000000000)>>)>>

CheckoutRequests ==
    {[BaseRequest EXCEPT !.origin = Some(OriginA), !.stream = OneChunk(d, 64)] :
        d \in CheckoutDocs \cup MetadataDocs}
    \cup {[BaseRequest EXCEPT !.origin = o, !.idempotencyKey = k,
                              !.stream = OneChunk(PlainCart, 64)] :
            o \in OriginHeaders, k \in {Absent, Some(<<" ", "k", "e", "y", "-", "1", " ">>), Some(<<" ", " ">>)}}
    \cup {[BaseRequest EXCEPT !.origin = o, !.hasBody = FALSE] : o \in OriginHeaders}
    \cup {[BaseRequest EXCEPT !.origin = o, !.contentLength = Some(<<"2", "0", "0", "0", "0", "0", "0", "0", "6", "4">>),
                              !.stream = HugeStream] : o \in OriginHeaders}
    \cup {[BaseRequest EXCEPT !.stream = <<DataChunk(<<Run(PlainCart, 64)>>), ErrorChunk>>]}

\* webhook bodies: Stripe events
SessionId == <<"c", "s", "_", "t", "e", "s", "t", "_", "1">>

EventDoc(type, object) ==
    JObj(<<Entry(K_id, JStr(<<"e", "v", "t", "_", "1">>)), Entry(K_type, JStr(type)),
           Entry(K_data, JObj(<<Entry(K_object, object)>>))>>)

CompletedEvent == EventDoc(TypeCompleted, JObj(<<Entry(K_id, JStr(SessionId))>>))

WebhookDocs ==
    {CompletedEvent,
     EventDoc(TypeCompleted, JObj(<<>>)),
     EventDoc(TypeCompleted, JNull),
     EventDoc(TypeSucceeded, JObj(<<Entry(K_id, JStr(<<"p", "i", "_", "1">>))>>)),
     EventDoc(<<"c", "h", "a", "r", "g", "e", ".", "r", "e", "f", "u", "n", "d", "e", "d">>, JObj(<<>>)),
     JObj(<<Entry(K_type, JStr(TypeSucceeded))>>),
     JNull}

WebhookStreams ==
    {OneChunk(d, 300) : d \in WebhookDocs}
    \cup {<<>>,
          OneChunk(Garbage, 10),
          <<NoValueChunk, DataChunk(<<Run(Ws, 100)>>), DataChunk(<<Run(CompletedEvent, 300), Run(Ws, 1)>>)>>,
          <<DataChunk(<<Run(CompletedEvent, 300)>>), DataChunk(<<Run(Bad8, 2)>>)>>,
          <<DataChunk(<<Run(CompletedEvent, 300)>>), ErrorChunk>>,
          <<DataChunk(<<Run(CompletedEvent, 300)>>),
            DataChunk(<<Run(Ws, MAX_WEBHOOK_BODY_BYTES - 300)>>)>>,
          <<DataChunk(<<Run(CompletedEvent, 300)>>),
            DataChunk(<<Run(Ws, MAX_WEBHOOK_BODY_BYTES - 299)>>),
            DataChunk(<<Run(Ws, 5)>>)>>}

WebhookSecret == <<"w", "h", "s", "e", "c", "_", "1">>

\* the Stripe-Signature headers a sender can attach to the body `text`:
\* none, an empty one, the right one, one under another secret, one of
\* another payload
SignaturesFor(text) ==
    {Absent, Some(EmptySignature), Some(Sign(text, WebhookSecret)),
     Some(Sign(text, <<"w", "h", "s", "e", "c", "_", "2">>)), Some(Sign(<<Run(JNull, 4)>>, WebhookSecret))}

ContentLengths ==
    {Absent, Some(<<" ", "3", "0", "0", " ">>), Some(<<"1", "2", "a">>), Some(<<>>), Some(<<"-", "1">>), Some(<<"2", "6", "2", "1", "4", "4">>),
     Some(<<"2", "6", "2", "1", "4", "5">>), Some(<<"0", "0", "0", "0", "0", "0", "0", "0", "0", "0", "0", "0", "0", "0", "0", "0", "0", "3", "0", "0">>), Some(<<"9", "0", "0", "7", "1", "9", "9", "2", "5", "4", "7", "4", "0", "9", "9", "3">>),
     Some(<<"9", "0", "0", "7", "1", "9", "9", "2", "5", "4", "7", "4", "0", "9", "9", "1">>), Some(<<"9", "0", "0", "7", "1", "9", "9", "2", "5", "4", "7", "4", "0", "9", "9", "2">>), Some(<<"+", "5">>), Some(<<" ">>)}

\* Content-Length values around the ceiling of the custom-order route
OrderContentLengths ==
    ContentLengths \cup {Some(<<"2", "0", "0">>), Some(<<"3", "1", "4", "5", "7", "2", "8">>), Some(<<"3", "1", "4", "5", "7", "2", "9">>), Some(<<"1", "e", "3">>)}

WebhookRequests ==
    UNION {{[BaseRequest EXCEPT !.origin = o, !.stream = s, !.signature = g] :
                o \in {Absent, Some(OriginC)},
                g \in SignaturesFor(Utf8String(StreamText(s)))} :
             s \in WebhookStreams}
    \cup {[BaseRequest EXCEPT !.stream = OneChunk(CompletedEvent, 300), !.signature = g,
                              !.contentLength = c] :
            g \in SignaturesFor(<<Run(CompletedEvent, 300)>>), c \in ContentLengths}
    \cup {[BaseRequest EXCEPT !.hasBody = FALSE, !.signature = g] :
            g \in SignaturesFor(<<>>)}
    \cup {[BaseRequest EXCEPT !.stream = s, !.contentLength = c,
                              !.signature = Some(Sign(Utf8String(StreamText(s)), WebhookSecret))] :
            s \in {<<DataChunk(<<Run(CompletedEvent, 300)>>),
                     DataChunk(<<Run(Ws, MAX_WEBHOOK_BODY_BYTES - 300)>>)>>,
                   <<DataChunk(<<Run(CompletedEvent, 300)>>), NoValueChunk,
                     DataChunk(<<Run(Ws, MAX_WEBHOOK_BODY_BYTES - 299)>>),
                     DataChunk(<<Run(Ws, 5)>>)>>,
                   <<DataChunk(<<Run(CompletedEvent, MAX_WEBHOOK_BODY_BYTES + 1)>>)>>},
            c \in {Some(<<"3", "0", "0">>), Some(<<"2", "6", "2", "1", "4", "4">>), Some(<<"0">>)}}
    \cup {[BaseRequest EXCEPT !.stream = s,
                              !.signature = Some(Sign(StreamText(s), WebhookSecret))] :
            s \in {<<DataChunk(<<Run(CompletedEvent, 300)>>), DataChunk(<<Run(Bad8, 2)>>)>>,
                   <<DataChunk(<<Run(Bad8, 1)>>)>>}}

\* custom-order bodies
OrderDoc(name, extra) ==
    JObj(<<Entry(K_name, name), Entry(K_email, JStr(<<"a", "n", "n", "@", "a", ".", "e", "x", "a", "m", "p", "l", "e">>)),
           Entry(K_productType, JStr(<<"c", "a", "p">>)),
           Entry(K_colors, JArr(<<JStr(<<"r", "e", "d">>), JStr(<<"<", "b", ">", "b", "l", "u", "e">>) >>))>> \o extra)

GoodOrder == OrderDoc(JStr(<<" ", "A", "n", "n", " ">>), <<>>)

OrderDocs ==
    {GoodOrder,
     OrderDoc(JStr(<<"A", "n", "n">>), <<Entry(K_captchaToken, JStr(<<" ", "t", "o", "k", " ">>))>>),
     OrderDoc(JStr(<<"A", "n", "n">>), <<Entry(K_captchaToken, JInt(1))>>),
     OrderDoc(JStr(<<"A">>), <<>>),
     OrderDoc(Undef, <<>>),
     JArr(<<>>), Garbage}

OrderStreams ==
    {OneChunk(d, 200) : d \in OrderDocs}
    \cup {<<DataChunk(<<Run(GoodOrder, 200)>>), ErrorChunk>>,
          <<DataChunk(<<Run(GoodOrder, 200)>>), DataChunk(<<Run(Ws, MAX_REQUEST_BYTES - 200)>>)>>,
          <<DataChunk(<<Run(GoodOrder, 200)>>), DataChunk(<<Run(Ws, MAX_REQUEST_BYTES - 199)>>)>>}

ClientIps == {Absent, Some(<<" ", "1", "0", ".", "0", ".", "0", ".", "1", " ", ",", " ", "1", "0", ".", "0", ".", "0", ".", "9">>)}

OrderRequests ==
    {[BaseRequest EXCEPT !.origin = o, !.forwardedFor = f, !.contentType = Some(<<"A", "p", "p", "l", "i", "c", "a", "t", "i", "o", "n", "/", "J", "S", "O", "N", ";", " ", "c", "h", "a", "r", "s", "e", "t", "=", "u", "t", "f", "-", "8">>),
                         !.stream = s] :
        o \in OriginHeaders, f \in ClientIps, s \in OrderStreams}
    \cup {[BaseRequest EXCEPT !.contentType = t, !.contentLength = c,
                              !.stream = OneChunk(GoodOrder, 200)] :
            t \in {Absent, Some(<<"t", "e", "x", "t", "/", "p", "l", "a", "i", "n">>), Some(ApplicationJson)},
            c \in OrderContentLengths}
    \cup {[BaseRequest EXCEPT !.contentType = Some(ApplicationJson), !.realIp = Some(<<"1", "0", ".", "0", ".", "0", ".", "1">>),
                              !.hasBody = FALSE]}

----------------------------------------------------------------------------
(* The service: one request at a time, to any endpoint, under any
   configuration *)

Envs == CheckoutEnvs \cup WebhookEnvs \cup OrderEnvs

Service == {1}

Init ==
    /\ env \in Envs
    /\ now = 0
    /\ rateLimitMap = EmptyMap
    /\ rlCfg = CustomOrderRateLimit
    /\ rlLast = NoCall
    /\ rlWin = EmptyMap
    /\ stripeClient = Absent
    /\ sessions = EmptyMap
    /\ nextSession = 1
    /\ probe = NoProbe
    /\ req = [r \in Service |-> Idle]

Next ==
    \/ \E r \in Service, request \in CheckoutRequests : CheckoutPost(r, request)
    \/ \E r \in Service : CheckoutBody(r)
    \/ \E r \in Service, outcome \in ProviderOutcomes :
          CheckoutProviderReturns(r, outcome)
    \/ \E r \in Service, request \in WebhookRequests : WebhookPost(r, request)
    \/ \E r \in Service : WebhookRead(r)
    \/ \E r \in Service : WebhookLineItemsReturn(r)
    \/ \E r \in Service, request \in OrderRequests : OrderPost(r, request)
    \/ \E r \in Service : OrderRead(r)
    \/ \E r \in Service, response \in TurnstileOutcomes : OrderCaptchaReturns(r, response)
    \/ \E r \in Service : OrderCaptchaBody(r)
    \/ \E r \in Service, sent \in BOOLEAN : OrderEmailReturns(r, sent)

Spec == Init /\ [][Next]_vars

----------------------------------------------------------------------------
(* Properties of the service *)

\* the request's origin is absent or no exact member of a non-empty
\* configured list
OriginDenied(e, origin) ==
    /\ Len(ParseAllowedOrigins(e)) > 0
    /\ \/ ~IsPresent(origin)
       \/ \A i \in 1..Len(ParseAllowedOrigins(e)) : ParseAllowedOrigins(e)[i] # origin[1]

\* the handler has read nothing and called nobody
NoWork(q) ==
    /\ q.reads = 0 /\ q.totalBytes = 0 /\ q.chunks = <<>> /\ q.stream = q.request.stream
    /\ q.rlCalls = 0 /\ q.providerCalls = 0 /\ q.lineItemCalls = 0
    /\ q.captchaCalls = 0 /\ q.emailCalls = 0 /\ q.verifyCalls = 0

ForbiddenOn(endpoints) ==
    \A r \in DOMAIN req :
        (req[r].ep \in endpoints /\ OriginDenied(env, req[r].request.origin)) =>
            /\ req[r].pc = "done"
            /\ req[r].status = 403
            /\ req[r].message = "Forbidden origin."
            /\ NoWork(req[r])
            /\ rateLimitMap = EmptyMap

\* C1 (as amended): on POST /checkout, a request whose Origin header is absent
\* or no exact member of a non-empty configured allowlist is answered 403
\* 'Forbidden origin.', and the handler never is in a state where it has read
\* body bytes, touched a rate-limit entry or called the provider, the captcha
\* service or the mailer.
C1_CheckoutForbiddenOrigin == ForbiddenOn({"checkout"})

C1_Witness ==
    \E r \in DOMAIN req :
        /\ req[r].ep = "checkout"
        /\ IsPresent(req[r].request.origin)
        /\ OriginDenied(env, req[r].request.origin)
        /\ req[r].request.stream # <<>>
        /\ req[r].status = 403

\* C1 as stated: the same on both POST /checkout and POST /custom-order.
C1_EveryBrowserEndpoint == ForbiddenOn({"checkout", "custom-order"})

\* the Stripe-Signature header is the signature of the body the handler
\* decoded, under the trimmed configured secret
SignedBody(e, q) ==
    /\ IsPresent(e.STRIPE_WEBHOOK_SECRET)
    /\ q.request.signature = Some(Sign(Utf8String(q.chunks), Trim(e.STRIPE_WEBHOOK_SECRET[1])))

Ceiling(ep) == IF ep = "webhook" THEN MAX_WEBHOOK_BODY_BYTES ELSE MAX_REQUEST_BYTES

\* the request got past the checks the endpoint makes before it looks at
\* Content-Length
PastHeaderChecks(e, q) ==
    CASE q.ep = "checkout" ->
            /\ ~(q.pc = "done" /\ q.status = 403)
            /\ ~(q.pc = "done" /\ q.status = 500 /\ q.reads = 0)
      [] q.ep = "webhook" ->
            /\ ~(q.pc = "done" /\ q.status = 500)
            /\ ~(q.pc = "done" /\ q.message = "Missing Stripe-Signature header.")
      [] q.ep = "custom-order" ->
            /\ ~(q.pc = "done" /\ q.status = 429)
            /\ ~(q.pc = "done" /\ q.status = 415)
      [] OTHER -> FALSE

DeclaredAbove(q, ceiling) ==
    /\ IsPresent(q.request.contentLength)
    /\ AllDigits(Trim(q.request.contentLength[1]))
    /\ Len(Trim(q.request.contentLength[1])) > 0
    /\ IsSafeInteger(Trim(q.request.contentLength[1]))
    /\ ParseInt(Trim(q.request.contentLength[1])) > ceiling

\* C6: on POST /checkout, /custom-order and /webhook, a request that passed
\* the earlier header checks and declares a Content-Length above the
\* endpoint's ceiling is answered 413 and its body stream is never read.
C6_DeclaredTooLargeRejected ==
    \A r \in DOMAIN req :
        (PastHeaderChecks(env, req[r]) /\ DeclaredAbove(req[r], Ceiling(req[r].ep))) =>
            /\ req[r].pc = "done"
            /\ req[r].status = 413
            /\ req[r].reads = 0
            /\ req[r].totalBytes = 0

\* the JSON value a request's body delivers, Undef when it delivers none
BodyDoc(q) ==
    IF q.request.hasBody /\ ~StreamHasError(q.request.stream)
    THEN JsonParse(StreamText(q.request.stream)).value
    ELSE Undef

\* a quantity that is 0, 100 or more, negative, no integer or no number
BadQuantity(x) ==
    \/ x.t # "num"
    \/ x.v[1] % x.v[2] # 0
    \/ x.v[1] \div x.v[2] <= 0
    \/ x.v[1] \div x.v[2] >= 100

HasBadQuantity(doc) ==
    /\ doc.t = "obj"
    /\ Get(doc, K_items).t = "arr"
    /\ \E i \in 1..Len(Get(doc, K_items).v) :
          /\ Get(doc, K_items).v[i].t = "obj"
          /\ BadQuantity(Get(Get(doc, K_items).v[i], K_quantity))

\* ^price_[a-zA-Z0-9]+$
IsPriceId(s) ==
    /\ Len(s) > 6
    /\ SubSeq(s, 1, 6) = <<"p", "r", "i", "c", "e", "_">>
    /\ \A i \in 7..Len(s) : s[i] \in Letters \cup Digits

GoodItems(items) ==
    /\ Len(items) >= 1
    /\ Len(items) <= 50
    /\ \A i \in 1..Len(items) :
          /\ items[i].quantity \in 1..99
          /\ IsPriceId(items[i].priceId)

\* C7: a payload the checkout validatePayload returns as valid has 1 to 50
\* items, each with an integer quantity in 1..99 and a priceId matching
\* ^price_[a-zA-Z0-9]+$; a body with an item whose quantity is 0, 100,
\* negative, no integer or no number is rejected with an error; and only a
\* valid payload reaches the provider call.
C7_ValidPayloadBounds ==
    \A r \in DOMAIN req :
        LET q == req[r]
        IN  (q.ep = "checkout" /\ q.reads > 0) =>
              /\ ValidatePayload(BodyDoc(q)).ok =>
                    GoodItems(ValidatePayload(BodyDoc(q)).payload.items)
              /\ HasBadQuantity(BodyDoc(q)) =>
                    /\ ~ValidatePayload(BodyDoc(q)).ok
                    /\ ValidatePayload(BodyDoc(q)).error.msg # ""
                    /\ q.pc = "done" /\ q.status = 400
              /\ q.providerCalls > 0 =>
                    /\ ValidatePayload(BodyDoc(q)).ok
                    /\ q.payload.line_items = ValidatePayload(BodyDoc(q)).payload.items
                    /\ GoodItems(q.payload.line_items)

C7_Witness ==
    \E r \in DOMAIN req :
        /\ req[r].ep = "checkout"
        /\ req[r].reads > 0
        /\ BodyDoc(req[r]) = CartWith(MAX_LINE_ITEMS, MAX_LINE_ITEMS,
                                      Item(JStr(PriceA), JInt(MAX_QUANTITY + 1)))
        /\ req[r].status = 400
        /\ req[r].errorIndex = MAX_LINE_ITEMS - 1

\* the handler reached sessions.create: the provider was called, or
\* getStripeClient threw inside the try block for want of STRIPE_SECRET_KEY
Proceeds(e, q) ==
    \/ q.providerCalls = 1
    \/ /\ Falsy(e.STRIPE_SECRET_KEY)
       /\ q.providerCalls = 0
       /\ q.pc = "done" /\ q.status = 500
       /\ q.message = "Failed to create checkout session."

Rejected(q, status) == q.pc = "done" /\ q.status = status /\ q.providerCalls = 0

\* C8: for a checkout request with a validated payload, enforcement on and
\* an empty allowed set give 500 and no provider call; enforcement on, a
\* non-empty set and an item outside it give 400 and no provider call;
\* enforcement on and every item in the set proceed to the provider;
\* enforcement off always proceeds to the provider.
C8_AllowlistOutcomes ==
    \A r \in DOMAIN req :
        LET q == req[r]
            allowlist == GetStripePriceAllowlist(env)
            items == ValidatePayload(BodyDoc(q)).payload.items
            outside == \E i \in 1..Len(items) :
                          ~Includes(allowlist.allowedPriceIds, items[i].priceId)
        IN  (q.ep = "checkout" /\ q.reads > 0 /\ ValidatePayload(BodyDoc(q)).ok) =>
              /\ (allowlist.enforce /\ allowlist.allowedPriceIds = <<>>) => Rejected(q, 500)
              /\ (allowlist.enforce /\ allowlist.allowedPriceIds # <<>> /\ outside) =>
                    Rejected(q, 400)
              /\ (allowlist.enforce /\ allowlist.allowedPriceIds # <<>> /\ ~outside) =>
                    Proceeds(env, q)
              /\ ~allowlist.enforce => Proceeds(env, q)

C8_Witness ==
    \E r \in DOMAIN req :
        /\ req[r].ep = "checkout"
        /\ req[r].reads > 0
        /\ ValidatePayload(BodyDoc(req[r])).ok
        /\ GetStripePriceAllowlist(env).enforce
        /\ Len(GetStripePriceAllowlist(env).allowedPriceIds) = 2
        /\ req[r].status = 400
        /\ req[r].message = "Cart contains invalid items."

SecretMissing(e) ==
    ~IsPresent(e.STRIPE_WEBHOOK_SECRET) \/ Trim(e.STRIPE_WEBHOOK_SECRET[1]) = <<>>

SignatureMissing(q) ==
    ~IsPresent(q.request.signature) \/ q.request.signature[1] = EmptySignature

Answered(q, status, message) == q.pc = "done" /\ q.status = status /\ q.message = message

\* C10: the webhook handler answers a missing or blank STRIPE_WEBHOOK_SECRET
\* with 500 whatever the signature header, then a missing Stripe-Signature
\* header with 400 'Missing Stripe-Signature header.', then a signature that
\* fails verification with 400 'Invalid webhook signature.'; each of the
\* three answers has one cause only.
C10_ThreeOutcomesInOrder ==
    \A r \in DOMAIN req :
        LET q == req[r]
            Misconfigured ==
                Answered(q, 500, "Server misconfigured: missing STRIPE_WEBHOOK_SECRET.")
            Missing == Answered(q, 400, "Missing Stripe-Signature header.")
            BadSignature == Answered(q, 400, "Invalid webhook signature.")
        IN  q.ep = "webhook" =>
              /\ SecretMissing(env) => (Misconfigured /\ NoWork(q))
              /\ (~SecretMissing(env) /\ SignatureMissing(q)) => (Missing /\ NoWork(q))
              /\ (~SecretMissing(env) /\ ~SignatureMissing(q) /\ q.verifyCalls > 0
                    /\ ~SignedBody(env, q)) => BadSignature
              /\ Misconfigured => SecretMissing(env)
              /\ Missing => (~SecretMissing(env) /\ SignatureMissing(q))
              /\ BadSignature =>
                    /\ ~SecretMissing(env) /\ ~SignatureMissing(q)
                    /\ ~SignedBody(env, q) \/ ~JsonParse(Utf8String(q.chunks)).ok
              /\ (q.pc = "done" /\ q.status = 500) => Misconfigured

C10_Witness ==
    \E r \in DOMAIN req :
        /\ req[r].ep = "webhook"
        /\ SecretMissing(env)
        /\ IsPresent(env.STRIPE_WEBHOOK_SECRET)
        /\ req[r].request.signature =
              Some(Sign(Utf8String(StreamText(req[r].request.stream)), WebhookSecret))
        /\ req[r].status = 500

----------------------------------------------------------------------------
(* Two checkout requests in flight at once *)

Shoppers == {1, 2}

IdempotencyHeaders ==
    {Absent, Some(<<" ", " ">>), Some(<<"k", "e", "y", "-", "1">>), Some(<<" ", "k", "e", "y", "-", "1", " ">>), Some(<<"k", "e", "y", "-", "2">>)}

ShopperRequests ==
    {[BaseRequest EXCEPT !.idempotencyKey = k, !.stream = OneChunk(d, 64)] :
        k \in IdempotencyHeaders, d \in {PlainCart, Cart(<<GoodItem>>)}}

InitCheckout ==
    /\ env = HappyEnv
    /\ now = 0
    /\ rateLimitMap = EmptyMap
    /\ rlCfg = CustomOrderRateLimit
    /\ rlLast = NoCall
    /\ rlWin = EmptyMap
    /\ stripeClient = Absent
    /\ sessions = EmptyMap
    /\ nextSession = 1
    /\ probe = NoProbe
    /\ req = [r \in Shoppers |-> Idle]

NextCheckout ==
    \/ \E r \in Shoppers, request \in ShopperRequests : CheckoutPost(r, request)
    \/ \E r \in Shoppers : CheckoutBody(r)
    \/ \E r \in Shoppers, outcome \in ProviderOutcomes :
          CheckoutProviderReturns(r, outcome)

SpecCheckout == InitCheckout /\ [][NextCheckout]_vars

\* the header carries a key: it is there and not blank
HasKey(header) == IsPresent(header) /\ \E i \in 1..Len(header[1]) : header[1][i] # " "

\* the handler has made its sessions.create call
Forwarded(q) == q.ep = "checkout" /\ q.providerCalls > 0

\* C9: two valid POST /checkout requests with identical items and the same
\* non-blank Idempotency-Key header forward the same key to the provider
\* and, when both get a session, get the same session id, in any order or
\* interleaving; a request whose header is absent or blank forwards no key.
C9_SameKeySameSession ==
    /\ \A r1 \in DOMAIN req, r2 \in DOMAIN req :
          (/\ Forwarded(req[r1]) /\ Forwarded(req[r2])
           /\ HasKey(req[r1].request.idempotencyKey)
           /\ req[r1].request.idempotencyKey = req[r2].request.idempotencyKey
           /\ req[r1].payload.line_items = req[r2].payload.line_items) =>
              /\ IsPresent(req[r1].key)
              /\ req[r1].key = req[r2].key
              /\ (req[r1].sessionId # 0 /\ req[r2].sessionId # 0) =>
                    req[r1].sessionId = req[r2].sessionId
    /\ \A r \in DOMAIN req :
          (Forwarded(req[r]) /\ ~HasKey(req[r].request.idempotencyKey)) =>
              ~IsPresent(req[r].key)

C9_Witness ==
    /\ Forwarded(req[1]) /\ Forwarded(req[2])
    /\ req[1].request.idempotencyKey = Some(<<" ", "k", "e", "y", "-", "1", " ">>)
    /\ req[2].request.idempotencyKey = Some(<<" ", "k", "e", "y", "-", "1", " ">>)
    /\ req[1].payload.line_items = req[2].payload.line_items
    /\ req[1].sessionId = 1
    /\ req[2].sessionId = 1
    /\ nextSession = 2

----------------------------------------------------------------------------
(* Concurrent custom orders, over time *)

Clients == {1, 2}

ClientRequests ==
    {[BaseRequest EXCEPT !.contentType = Some(ApplicationJson), !.forwardedFor = f,
                         !.stream = OneChunk(GoodOrder, 200)] :
        f \in ClientIps}

InitOrders ==
    /\ env = HappyEnv
    /\ now = 0
    /\ rateLimitMap = EmptyMap
    /\ rlCfg = CustomOrderRateLimit
    /\ rlLast = NoCall
    /\ rlWin = EmptyMap
    /\ stripeClient = Absent
    /\ sessions = EmptyMap
    /\ nextSession = 1
    /\ probe = NoProbe
    /\ req = [r \in Clients |-> Idle]

NextOrders ==
    \/ \E d \in {CustomOrderRateLimit.window, CustomOrderRateLimit.window + 1} :
          Tick(d, CustomOrderRateLimit.window + MaxSkew)
    \/ Sweep
    \/ \E r \in Clients, request \in ClientRequests : OrderPost(r, request)
    \/ \E r \in Clients : OrderRead(r)
    \/ \E r \in Clients : OrderEmailReturns(r, TRUE)
    \/ \E r \in Clients : Recycle(r)

SpecOrders == InitOrders /\ [][NextOrders]_vars

\* C5: under every interleaving of concurrent POST /custom-order requests of
\* one client identifier no increment is lost: after k requests in one
\* window the identifier's entry has count k, and at most `limit` of the k
\* were allowed.
C5_NoLostIncrement ==
    \A identifier \in DOMAIN rlWin :
        /\ rlWin[identifier].allowed <= CustomOrderRateLimit.requests
        /\ HasEntry(rateLimitMap, identifier) =>
              rateLimitMap[identifier].count = rlWin[identifier].k
        /\ (rlLast.id = identifier /\ rlLast.k > CustomOrderRateLimit.requests) =>
              ~rlLast.allowed

C5_Witness ==
    /\ req[1].pc = "read"
    /\ req[2].pc = "done" /\ req[2].status = 429
    /\ req[1].ip = req[2].ip
    /\ rlWin[CustomOrderKey(req[1].ip)].k = CustomOrderRateLimit.requests + 1
    /\ rlWin[CustomOrderKey(req[1].ip)].allowed = CustomOrderRateLimit.requests
    /\ rateLimitMap[CustomOrderKey(req[1].ip)].count = CustomOrderRateLimit.requests + 1
----------------------------------------------------------------------------
(* The second POST of the webhook route file: it checks the origin first and
   reads the body with request.text() *)

\* the handler up to `await request.text()`
SecondWebhookEnter(e, q) ==
    IF ~IsOriginAllowed(e, q.request.origin) THEN Respond(q, 403, "Forbidden origin.")
    ELSE IF ~IsPresent(GetWebhookSecret(e))
    THEN Respond(q, 500, "Server misconfigured: missing STRIPE_WEBHOOK_SECRET.")
    ELSE IF ~IsPresent(q.request.signature) \/ q.request.signature[1] = EmptySignature
    THEN Respond(q, 400, "Missing Stripe-Signature header.")
    ELSE [q EXCEPT !.pc = "text"]

\* request.text() settles: a rejection leaves the handler; otherwise the
\* whole body, decoded, is rawBody and the handler goes on with
\* getStripeClient, constructEvent and the switch, as the first POST does
SecondWebhookAfterText(e, cell, q) ==
    LET q1 == [q EXCEPT !.reads = @ + 1, !.stream = <<>>,
                       !.totalBytes = TextLen(StreamText(q.stream)),
                       !.chunks = StreamText(q.stream),
                       !.bodyResult = "ok"]
    IN  IF q.request.hasBody /\ StreamHasError(q.stream)
        THEN [q |-> Throw([q EXCEPT !.reads = @ + 1, !.stream = <<>>]), cell |-> cell]
        ELSE WebhookAfterBody(e, cell, q1)

\* POST arrives at the second handler and runs to its first await
SecondWebhookPost(r, request) ==
    /\ req[r].pc = "idle"
    /\ req' = [req EXCEPT ![r] = SecondWebhookEnter(env, NewRequest("webhook-2", request))]
    /\ UNCHANGED <<probe, env, now, rateLimitMap, rlCfg, rlLast, rlWin, stripeClient,
                   sessions, nextSession>>

\* request.text() settles
SecondWebhookText(r) ==
    /\ req[r].ep = "webhook-2"
    /\ req[r].pc = "text"
    /\ LET out == SecondWebhookAfterText(env, stripeClient, req[r])
       IN  /\ req' = [req EXCEPT ![r] = out.q]
           /\ stripeClient' = out.cell
    /\ UNCHANGED <<probe, env, now, rateLimitMap, rlCfg, rlLast, rlWin, sessions, nextSession>>

\* safeListCheckoutLineItems of the second handler settles
SecondWebhookLineItemsReturn(r) ==
    /\ req[r].ep = "webhook-2"
    /\ req[r].pc = "lineItems"
    /\ req' = [req EXCEPT ![r] =
                 [Respond(req[r], 200, "") EXCEPT !.routed = "checkout.session.completed"]]
    /\ UNCHANGED <<probe, env, now, rateLimitMap, rlCfg, rlLast, rlWin, stripeClient,
                   sessions, nextSession>>

\* readRequestBodyWithLimit run to its return
RECURSIVE ReadAll(_, _)
ReadAll(q, maxBytes) ==
    IF q.bodyResult # "none" THEN q ELSE ReadAll(ReadStep(q, maxBytes), maxBytes)

\* a handler suspended at listLineItems, resumed
Resumed(q) ==
    IF q.pc = "lineItems"
    THEN [Respond(q, 200, "") EXCEPT !.routed = "checkout.session.completed"]
    ELSE q

\* the first webhook POST run from arrival to its end on one request
WebhookRun(e, request) ==
    LET entered == WebhookEnter(e, Absent, NewRequest("webhook", request)).q
    IN  Resumed(IF entered.pc = "read"
                THEN WebhookAfterBody(e, Absent, ReadAll(entered, MAX_WEBHOOK_BODY_BYTES)).q
                ELSE entered)

\* the second webhook POST run from arrival to its end on one request
SecondWebhookRun(e, request) ==
    LET entered == SecondWebhookEnter(e, NewRequest("webhook-2", request))
    IN  Resumed(IF entered.pc = "text"
                THEN SecondWebhookAfterText(e, Absent, entered).q
                ELSE entered)

HookRun(ep, e, request) ==
    IF ep = "webhook" THEN WebhookRun(e, request) ELSE SecondWebhookRun(e, request)

\* what a webhook request came to: how the handler ended, the response, and
\* whether and how the event was routed
Outcome(q) ==
    [pc |-> q.pc, status |-> q.status, message |-> q.message,
     verified |-> q.verified, routed |-> q.routed]

\* webhook configurations and requests, over every allowlist and Origin
HookEnvs ==
    {[e EXCEPT !.ALLOWED_ORIGIN = o] : e \in WebhookEnvs, o \in AllowedOriginValues}

HookRequests ==
    {[request EXCEPT !.origin = o] : request \in WebhookRequests, o \in OriginHeaders}

InitWebhook ==
    /\ env \in HookEnvs
    /\ now = 0
    /\ rateLimitMap = EmptyMap
    /\ rlCfg = CustomOrderRateLimit
    /\ rlLast = NoCall
    /\ rlWin = EmptyMap
    /\ stripeClient = Absent
    /\ sessions = EmptyMap
    /\ nextSession = 1
    /\ probe = NoProbe
    /\ req = [r \in Service |-> Idle]

NextWebhook ==
    \/ \E r \in Service, request \in HookRequests : WebhookPost(r, request)
    \/ \E r \in Service : WebhookRead(r)
    \/ \E r \in Service : WebhookLineItemsReturn(r)
    \/ \E r \in Service, request \in HookRequests : SecondWebhookPost(r, request)
    \/ \E r \in Service : SecondWebhookText(r)
    \/ \E r \in Service : SecondWebhookLineItemsReturn(r)

SpecWebhook == InitWebhook /\ [][NextWebhook]_vars

\* the outcome of every finished webhook request of the handlers `endpoints`
\* is the outcome of the same request without its Origin header under the
\* same configuration without its allowlist, and is never 403 when the body
\* is correctly signed
OriginBlind(endpoints) ==
    \A r \in DOMAIN req :
        LET q == req[r]
            plain == HookRun(q.ep, [env EXCEPT !.ALLOWED_ORIGIN = Absent],
                             [q.request EXCEPT !.origin = Absent])
        IN  (q.ep \in endpoints /\ q.pc \in {"done", "threw"}) =>
              /\ Outcome(q) = Outcome(plain)
              /\ (q.request.hasBody /\ ~StreamHasError(q.request.stream)
                    /\ IsPresent(env.STRIPE_WEBHOOK_SECRET)
                    /\ q.request.signature =
                          Some(Sign(Utf8String(StreamText(q.request.stream)),
                                    Trim(env.STRIPE_WEBHOOK_SECRET[1])))) =>
                    q.status # 403

\* C11: the outcome of POST /webhook (status, and whether the event is
\* routed) does not depend on the request's Origin header or on the
\* configured origin allowlist, in either webhook handler of the repository,
\* and a correctly signed event is never answered with 403.
C11_WebhookOriginBlind == OriginBlind({"webhook", "webhook-2"})
----------------------------------------------------------------------------
(* The captcha check of the custom-order handler *)

\* the decimal digits of a three-digit HTTP status
StatusDigits(status) ==
    <<DigitSeq[(status \div 100) + 1], DigitSeq[((status \div 10) % 10) + 1],
      DigitSeq[(status % 10) + 1]>>

\* the body the handler received is a JSON object that passes validatePayload
OrderValid(q) ==
    /\ q.bodyResult = "ok"
    /\ JsonParse(Utf8String(q.chunks)).ok
    /\ ValidateOrder(JsonParse(Utf8String(q.chunks)).value).ok

\* C12: verifyTurnstileToken returns verified=true only when the collaborator
\* answered with an HTTP-ok response whose JSON parses and whose success
\* field is exactly true; a network failure returns verified=false with
\* network_error, a non-ok status verified=false with http_<status>, an
\* unparsable body verified=false with invalid_response; a request that is
\* not verified is answered 403 and sends no mail; without a
\* TURNSTILE_SECRET_KEY the collaborator is never called and a valid request
\* goes on to the mail step without a captcha check.
C12_CaptchaFailsClosed ==
    \A r \in DOMAIN req :
        LET q == req[r]
            response == q.captcha.response
            result == q.captcha.result
            body == JsonParse(response.body)
        IN  q.ep = "custom-order" =>
              /\ (result.state = "returned" /\ result.verified) =>
                    /\ response.kind = "response"
                    /\ response.status \in 200..299
                    /\ body.ok
                    /\ body.value.t = "obj"
                    /\ Get(body.value, K_success) = JBool(TRUE)
              /\ (result.state = "returned" /\ response.kind = "network_error") =>
                    /\ ~result.verified
                    /\ result.errorCodes = <<<<"n", "e", "t", "w", "o", "r", "k", "_", "e", "r", "r", "o", "r">>>>
              /\ (result.state = "returned" /\ response.kind = "response"
                    /\ response.status \notin 200..299) =>
                    /\ ~result.verified
                    /\ result.errorCodes = <<<<"h", "t", "t", "p", "_">> \o StatusDigits(response.status)>>
              /\ (result.state = "returned" /\ response.kind = "response"
                    /\ response.status \in 200..299 /\ ~body.ok) =>
                    /\ ~result.verified
                    /\ result.errorCodes = <<<<"i", "n", "v", "a", "l", "i", "d", "_", "r", "e", "s", "p", "o", "n", "s", "e">>>>
              /\ (result.state = "returned" /\ ~result.verified) =>
                    /\ Answered(q, 403, "Captcha verification failed.")
                    /\ q.emailCalls = 0
              /\ (q.emailCalls > 0 /\ IsPresent(GetTurnstileSecret(env))) =>
                    (result.state = "returned" /\ result.verified)
              /\ ~IsPresent(GetTurnstileSecret(env)) =>
                    /\ q.captchaCalls = 0
                    /\ response = NoResponse
                    /\ q.status # 403
                    /\ q.message # "Captcha verification is required."
                    /\ OrderValid(q) =>
                          \/ q.emailCalls = 1
                          \/ Answered(q, 500, "Server misconfigured: missing ORDER_EMAIL.")
                          \/ Answered(q, 500, "Server misconfigured: missing RESEND_API_KEY.")

\* the service answered 200 with success "true", a string: not verified, 403
C12_Witness ==
    \E r \in DOMAIN req :
        /\ req[r].ep = "custom-order"
        /\ req[r].captchaCalls = 1
        /\ req[r].captcha.response.status = 200
        /\ JsonParse(req[r].captcha.response.body).ok
        /\ JsonParse(req[r].captcha.response.body).value.t = "obj"
        /\ Get(JsonParse(req[r].captcha.response.body).value, K_success) = JStr(<<"t", "r", "u", "e">>)
        /\ req[r].captcha.result.state = "returned"
        /\ req[r].status = 403
----------------------------------------------------------------------------
(* The metadata the checkout handler sends to the provider *)

\* the metadata object of the request's body, Undef when it has none
ClientMetadata(q) ==
    IF BodyDoc(q).t = "obj" THEN Get(BodyDoc(q), K_metadata) ELSE Undef

\* the values the map `entries` holds under the key k
ValuesAt(entries, k) == {entries[i].val : i \in {j \in 1..Len(entries) : entries[j].k = k}}

HasKeyLike(metadata, k) ==
    /\ metadata.t = "obj"
    /\ \E i \in 1..Len(metadata.v) : metadata.v[i].k = k

\* C13: whatever metadata object the client supplies, the metadata sent to
\* the provider has exactly one entry 'source', and its value is 'framer'.
C13_SourceIsFramer ==
    \A r \in DOMAIN req :
        (req[r].ep = "checkout" /\ req[r].providerCalls > 0) =>
            /\ ValuesAt(req[r].payload.metadata, <<"s", "o", "u", "r", "c", "e">>)
                  = {<<"f", "r", "a", "m", "e", "r">>}
            /\ Cardinality({i \in 1..Len(req[r].payload.metadata) :
                   req[r].payload.metadata[i].k = <<"s", "o", "u", "r", "c", "e">>}) = 1

C13_Witness ==
    \E r \in DOMAIN req :
        /\ req[r].ep = "checkout"
        /\ req[r].providerCalls = 1
        /\ HasKeyLike(ClientMetadata(req[r]), <<"s", "o", "u", "r", "c", "e">>)
        /\ Len(ClientMetadata(req[r]).v) > 1
        /\ Get(ClientMetadata(req[r]), <<"s", "o", "u", "r", "c", "e">>).v = <<"e", "v", "i", "l">>

\* C14: the metadata map passed to session creation has at most
\* MAX_METADATA_ENTRIES = 50 entries, every key is non-empty, at most 40
\* characters and made only of [a-zA-Z0-9_], and every value is a string of
\* at most 500 characters.
C14_MetadataBounded ==
    \A r \in DOMAIN req :
        (req[r].ep = "checkout" /\ req[r].providerCalls > 0) =>
            LET metadata == req[r].payload.metadata
            IN  /\ Len(metadata) <= 50
                /\ \A i \in 1..Len(metadata) :
                      /\ Len(metadata[i].k) \in 1..40
                      /\ \A j \in 1..Len(metadata[i].k) :
                            metadata[i].k[j] \in Letters \cup Digits \cup {"_"}
                      /\ Len(metadata[i].val) <= 500
                      /\ \A m \in 1..Len(metadata) : metadata[m].k = metadata[i].k => m = i
----------------------------------------------------------------------------
(* Functions of the code called on their own, on inputs built from tokens *)

RECURSIVE Flatten(_)
Flatten(parts) == IF parts = <<>> THEN <<>> ELSE Head(parts) \o Flatten(Tail(parts))

\* the strings made of at most n of the tokens
TokenStrings(tokens, n) ==
    {Flatten(parts) : parts \in UNION {[1..k -> tokens] : k \in 0..n}}

SanitizeTokens ==
    {<<"<">>, <<">", "b">>, <<"j", "a", "v", "a", "s", "c", "r", "i", "p", "t", ":">>, <<"J", "a", "v", "a", "S", "c", "r", "i", "p", "t", ":">>, <<"j", "a", "v", "a">>, <<"s", "c", "r", "i", "p", "t", ":">>, <<"O", "N", "x", "=">>, <<"o">>,
     <<"n", "x", "=">>, <<" ", "a">>}

SanitizeProbes ==
    {[fn |-> "sanitizeInput", args |-> [input |-> input, maxLength |-> maxLength],
      applied |-> FALSE, result |-> <<>>] :
        input \in TokenStrings(SanitizeTokens, MaxTokens), maxLength \in {0, 3, 11, 64}}

\* the module is loaded and no request has arrived
AtRest ==
    /\ env = NoEnv
    /\ now = 0
    /\ rateLimitMap = EmptyMap
    /\ rlCfg = CustomOrderRateLimit
    /\ rlLast = NoCall
    /\ rlWin = EmptyMap
    /\ stripeClient = Absent
    /\ sessions = EmptyMap
    /\ nextSession = 1
    /\ req = NoRequests

\* custom-order bodies, field by field
OrderNames ==
    {JStr(<<"A", "n", "n">>), JStr(<<" ", "A", " ">>), JStr(<<"<", ">">>), JStr(<<"<", "b", ">">>), JStr(<<"o", "n", "x", "=", "A">>),
     JStr(LongString("n", MAX_NAME_LENGTH)), JStr(LongString("n", MAX_NAME_LENGTH + 1)),
     JInt(7)}

OrderEmails ==
    {JStr(<<"a", "n", "n", "@", "a", ".", "e", "x", "a", "m", "p", "l", "e">>), JStr(<<"<", ">", "@", "<", ">", ".", "<", ">">>), JStr(<<"a", "<", "b", ">", "@", "c", ".", "d">>), JStr(<<"a", "@", "b">>),
     JStr(<<"a", " ", "b", "@", "c", ".", "d">>),
     JStr(LongString("e", MAX_EMAIL_LENGTH - 4) \o <<"@", "b", ".", "c">>),
     JStr(LongString("e", MAX_EMAIL_LENGTH - 3) \o <<"@", "b", ".", "c">>),
     JStr(LongString("e", MAX_EMAIL_LENGTH + 1))}

OrderProducts ==
    {JStr(<<"c", "a", "p">>), JStr(<<"<", ">">>), JStr(<<" ", " ">>),
     JStr(LongString("p", MAX_PRODUCT_FIELD_LENGTH + 1))}

OrderColors ==
    {JArr(<<JStr(<<"r", "e", "d">>)>>), JArr(<<JStr(<<"r", "e", "d">>), JStr(<<"<", ">">>)>>), JArr(<<>>),
     JArr([i \in 1..MAX_COLORS |-> JStr(<<"c">> \o NatString(i))]),
     JArr([i \in 1..(MAX_COLORS + 1) |-> JStr(<<"c">> \o NatString(i))]),
     JArr(<<JStr(LongString("c", MAX_COLOR_LENGTH + 1)), JStr(<<" ", "<", "b", ">", "b", "l", "u", "e", " ">>)>>),
     JArr(<<JStr(<<"r", "e", "d">>), JInt(3)>>), JStr(<<"r", "e", "d">>), Undef}

FieldDocs ==
    {JObj(<<Entry(K_name, name), Entry(K_email, email), Entry(K_productType, productType),
            Entry(K_colors, colors)>>) :
        name \in OrderNames, email \in OrderEmails, productType \in OrderProducts,
        colors \in OrderColors}

\* the number of base64 characters that decode to exactly `bytes` bytes
Base64Chars(bytes) == ((4 * bytes) + 2) \div 3

DesignImages ==
    {Undef, JNull, JStr(<<>>), JStr(<<" ", " ">>), JInt(5), JBool(TRUE), JArr(<<>>), JObj(<<>>),
     JStr(DataPng \o <<"A", "A", "A", "A">>), JStr(<<" ">> \o DataJpeg \o <<"A", "A", "=", "=">> \o <<" ">>),
     JStr(DataPng), JStr(DataPng \o <<"=">>), JStr(DataPng \o <<"A">>), JStr(DataPng \o <<"A", "A">>),
     JStr(DataPng \o <<"A", "A", "*", "A">>), JStr(<<"d", "a", "t", "a", ":", "i", "m", "a", "g", "e", "/", "g", "i", "f", ";", "b", "a", "s", "e", "6", "4", ",", "A", "A", "A", "A">>),
     JStr(<<"x">> \o DataPng \o <<"A", "A", "A", "A">>), JStr(<<"A", "A", "A", "A">>),
     JFill(DataPng, "A", Base64Chars(MAX_DESIGN_IMAGE_BYTES)),
     JFill(DataPng, "A", Base64Chars(MAX_DESIGN_IMAGE_BYTES) + 1),
     JFill(DataJpeg \o <<"A", "A", "A", "A">>, " ", 10),
     JFill(DataPng, "*", 8)}

ImageDocs ==
    {OrderDoc(name, <<Entry(K_designImage, image)>>) :
        name \in {JStr(<<"A", "n", "n">>), JStr(<<"A">>)}, image \in DesignImages}

ValidateProbes ==
    {[fn |-> "validatePayload", args |-> [input |-> input], applied |-> FALSE,
      result |-> <<>>] :
        input \in FieldDocs \cup ImageDocs \cup {JNull, JArr(<<>>), JStr(<<"x">>)}}

\* pieces of ALLOWED_ORIGIN values and of Origin headers
OriginTokens ==
    {<<"h", "t", "t", "p", "s", ":", "/", "/", "a", ".", "e", "x", "a", "m", "p", "l", "e">>, <<"h", "t", "t", "p", "s", ":", "/", "/", "A", ".", "e", "x", "a", "m", "p", "l", "e">>, <<"/">>, <<",">>, <<" ">>}

\* values of process.env.ALLOWED_ORIGIN
ProbedAllowedOrigins == {Absent} \cup {Some(s) : s \in TokenStrings(OriginTokens, MaxTokens)}

\* values of request.headers.get("origin"): null, or a value without white
\* space around it
ProbedOriginHeaders ==
    {Absent} \cup {Some(s) : s \in {t \in TokenStrings(OriginTokens, MaxTokens - 1) :
                                         Trim(t) = t}}

OriginProbe(a, o) ==
    [fn |-> "isOriginAllowed", args |-> [ALLOWED_ORIGIN |-> a, origin |-> o],
     applied |-> FALSE, result |-> <<>>]

\* items of a cart: good, wrong in the price, in the quantity, in both, no object
ProbeItems ==
    {GoodItem, Item(JStr(<<"s", "k", "u", "_", "1">>), JInt(1)), Item(JStr(PriceA), JInt(0)),
     Item(JStr(<<"s", "k", "u", "_", "1">>), JInt(0)), Item(JInt(7), JStr(<<"2">>)), JNull}

\* carts of one to MaxTokens of these items
ProbeCarts == {Cart(items) : items \in UNION {[1..k -> ProbeItems] : k \in 1..MaxTokens}}

CheckoutProbe(input) ==
    [fn |-> "checkout.validatePayload", args |-> [input |-> input], applied |-> FALSE,
     result |-> <<>>]

InitFunctions ==
    /\ AtRest
    /\ \/ probe \in SanitizeProbes \cup ValidateProbes
       \/ \E input \in ProbeCarts : probe = CheckoutProbe(input)
       \/ \E a \in ProbedAllowedOrigins, o \in ProbedOriginHeaders :
              probe = OriginProbe(a, o)

\* sanitizeInput(input, maxLength) is called
ApplySanitizeInput ==
    /\ probe.fn = "sanitizeInput"
    /\ ~probe.applied
    /\ probe' = [probe EXCEPT !.applied = TRUE,
                              !.result = SanitizeInput(probe.args.input, probe.args.maxLength)]
    /\ UNCHANGED <<env, now, rateLimitMap, rlCfg, rlLast, rlWin, stripeClient,
                   sessions, nextSession, req>>

\* validatePayload(input) of the custom-order route is called
ApplyValidatePayload ==
    /\ probe.fn = "validatePayload"
    /\ ~probe.applied
    /\ probe' = [probe EXCEPT !.applied = TRUE, !.result = ValidateOrder(probe.args.input)]
    /\ UNCHANGED <<env, now, rateLimitMap, rlCfg, rlLast, rlWin, stripeClient,
                   sessions, nextSession, req>>

\* isOriginAllowed(request) is called under a value of ALLOWED_ORIGIN
ApplyIsOriginAllowed ==
    /\ probe.fn = "isOriginAllowed"
    /\ ~probe.applied
    /\ probe' = [probe EXCEPT
                    !.applied = TRUE,
                    !.result = IsOriginAllowed(
                                   [NoEnv EXCEPT !.ALLOWED_ORIGIN = probe.args.ALLOWED_ORIGIN],
                                   probe.args.origin)]
    /\ UNCHANGED <<env, now, rateLimitMap, rlCfg, rlLast, rlWin, stripeClient,
                   sessions, nextSession, req>>

\* validatePayload(input) of the checkout route is called
ApplyCheckoutValidatePayload ==
    /\ probe.fn = "checkout.validatePayload"
    /\ ~probe.applied
    /\ probe' = [probe EXCEPT !.applied = TRUE, !.result = ValidatePayload(probe.args.input)]
    /\ UNCHANGED <<env, now, rateLimitMap, rlCfg, rlLast, rlWin, stripeClient,
                   sessions, nextSession, req>>

NextFunctions ==
    \/ ApplySanitizeInput
    \/ ApplyValidatePayload
    \/ ApplyCheckoutValidatePayload
    \/ ApplyIsOriginAllowed

SpecFunctions == InitFunctions /\ [][NextFunctions]_vars

\* s has the string pattern in it, letter case ignored
ContainsIgnoringCase(s, pattern) ==
    \E i \in 1..(Len(s) - Len(pattern) + 1) :
        \A j \in 1..Len(pattern) : LowerChar(s[i + j - 1]) = LowerChar(pattern[j])

\* s has in it "on", one or more word characters, and "="
ContainsHandler(s) ==
    \E i \in 1..Len(s), j \in 1..Len(s) :
        /\ j >= i + 3
        /\ LowerChar(s[i]) = "o" /\ LowerChar(s[i + 1]) = "n"
        /\ s[j] = "="
        /\ \A m \in (i + 2)..(j - 1) : s[m] \in Letters \cup Digits \cup {"_"}

NoAngles(s) == \A i \in 1..Len(s) : s[i] # "<" /\ s[i] # ">"

\* C15: for every input and maxLength, the output of sanitizeInput has at
\* most maxLength characters and has no '<' or '>', no 'javascript:' in any
\* letter case, and no on<word characters>= in it.
C15_SanitizedIsClean ==
    (probe.fn = "sanitizeInput" /\ probe.applied) =>
        /\ Len(probe.result) <= probe.args.maxLength
        /\ NoAngles(probe.result)
        /\ ~ContainsIgnoringCase(probe.result, <<"j", "a", "v", "a", "s", "c", "r", "i", "p", "t", ":">>)
        /\ ~ContainsHandler(probe.result)
\* C16: every payload the custom-order validatePayload accepts has, in the
\* sanitized values it returns, 1 to 10 colors, each a non-empty string of
\* at most 64 characters, a name of 2 to 100 characters, an email that
\* matches the email pattern and has at most 254 characters, and a
\* non-empty productType of at most 100 characters.
C16_AcceptedOrderBounds ==
    (probe.fn = "validatePayload" /\ probe.applied /\ probe.result.ok) =>
        LET payload == probe.result.payload
        IN  /\ Len(payload.colors) \in 1..10
            /\ \A i \in 1..Len(payload.colors) : Len(payload.colors[i]) \in 1..64
            /\ Len(payload.name) \in 2..100
            /\ MatchesEmail(payload.email)
            /\ Len(payload.email) <= 254
            /\ Len(payload.productType) \in 1..100
\* the body without its designImage field
IsOtherField(entry) == entry.k # K_designImage

WithoutImage(input) == JObj(SelectSeq(input.v, IsOtherField))

\* the value, white space around it aside, matches
\* data:(image/png|image/jpeg);base64,<base64 characters> and decodes to
\* between 1 and 2*1024*1024 bytes
ImageOk(x) ==
    /\ x.t \in {"str", "fill"}
    /\ DecodedImageBytes(x) >= 1
    /\ DecodedImageBytes(x) <= 2 * 1024 * 1024

\* C17: a custom-order body whose designImage is present and not null, and
\* which is valid otherwise, is accepted only if the value matches the data:
\* URI pattern and decodes to between 1 and 2*1024*1024 bytes, and then the
\* image is kept; in every other case it is rejected with 'Invalid design
\* image payload.'.
C17_BadImageRejected ==
    (/\ probe.fn = "validatePayload" /\ probe.applied
     /\ probe.args.input.t = "obj"
     /\ Get(probe.args.input, K_designImage).t \notin {"undef", "null"}
     /\ ValidateOrder(WithoutImage(probe.args.input)).ok) =>
        IF ImageOk(Get(probe.args.input, K_designImage))
        THEN probe.result.ok /\ probe.result.payload.designImage = "image"
        ELSE ~probe.result.ok /\ probe.result.error = "Invalid design image payload."
----------------------------------------------------------------------------
(* checkout: one provider call, one terminal error *)

\* sessions.create was reached and failed: it rejected, or getStripeClient
\* threw in the same try block before the call could be made
SessionCreateFailure(e, q) ==
    /\ q.ep = "checkout"
    /\ q.pc = "done"
    /\ q.payload # Undef
    /\ \/ q.providerOutcome \in ProviderErrors
       \/ Falsy(e.STRIPE_SECRET_KEY)

\* C18: a checkout request calls sessions.create at most once; when that call
\* rejects, whatever the error it rejects with, or when the client cannot be
\* obtained, the request ends with 500 'Failed to create checkout session.'
\* and sessions.create was not called again.
C18_SingleProviderCall ==
    \A r \in DOMAIN req :
        req[r].ep = "checkout" =>
            /\ req[r].providerCalls <= 1
            /\ req[r].pc = "provider" => req[r].providerCalls = 1
            /\ req[r].providerOutcome # "none" =>
                   req[r].pc = "done" /\ req[r].providerCalls = 1
            /\ SessionCreateFailure(env, req[r]) =>
                   /\ req[r].status = 500
                   /\ req[r].message = "Failed to create checkout session."
                   /\ req[r].sessionId = 0
                   /\ req[r].providerCalls =
                          (IF Falsy(env.STRIPE_SECRET_KEY) THEN 0 ELSE 1)

\* sessions.create was called once with a sanitized payload and rejected
\* with a connection error; the request ended with the fixed 500
C18_Witness ==
    \E r \in DOMAIN req :
        /\ SessionCreateFailure(env, req[r])
        /\ req[r].providerOutcome = "connection_error"
        /\ req[r].providerCalls = 1
        /\ req[r].status = 500
        /\ req[r].message = "Failed to create checkout session."

\* the client could not be obtained: 500 with the same message and no call
C18_WitnessNoClient ==
    \E r \in DOMAIN req :
        /\ SessionCreateFailure(env, req[r])
        /\ Falsy(env.STRIPE_SECRET_KEY)
        /\ req[r].providerCalls = 0
        /\ req[r].status = 500
----------------------------------------------------------------------------
(* every POST is answered *)

\* the statuses of the error taxonomy, and 200
AnswerStatuses == {200, 400, 403, 413, 415, 429, 500}

\* C19: no exception leaves a POST handler of /checkout, /webhook or
\* /custom-order, whatever the configuration (a missing STRIPE_SECRET_KEY
\* included) and whatever the collaborators do; a handler that has returned
\* has answered with one of 200, 400, 403, 413, 415, 429, 500.
C19_EveryPostAnswered ==
    \A r \in DOMAIN req :
        /\ req[r].pc # "threw"
        /\ req[r].pc = "done" => req[r].status \in AnswerStatuses
----------------------------------------------------------------------------
(* isOriginAllowed on its own *)

\* a piece of s between commas starts at i (a piece may be empty)
PieceStartsAt(s, i) == i = 1 \/ s[i - 1] = ","

\* the piece that starts at i ends at j (j = i - 1 when it is empty)
PieceEndsAt(s, i, j) ==
    /\ j = Len(s) \/ s[j + 1] = ","
    /\ \A m \in i..j : s[m] # ","

\* the configured allowlist: the pieces of ALLOWED_ORIGIN between commas,
\* each trimmed, the empty ones left out; nothing when the variable is unset
AllowlistEntries(value) ==
    IF ~IsPresent(value) THEN {}
    ELSE LET s == value[1]
             starts == {i \in 1..(Len(s) + 1) : PieceStartsAt(s, i)}
         IN  UNION {{Trim(SubSeq(s, i, j)) :
                        j \in {k \in (i - 1)..Len(s) : PieceEndsAt(s, i, k)}} :
                    i \in starts} \ {<<>>}

\* C20: isOriginAllowed is true exactly when the allowlist is empty, or the
\* request has an Origin header whose value is, character for character, one
\* of its entries; so with a non-empty allowlist a request without an Origin
\* header is denied.
C20_OriginAllowedExactly ==
    (probe.fn = "isOriginAllowed" /\ probe.applied) =>
        LET entries == AllowlistEntries(probe.args.ALLOWED_ORIGIN)
            origin == probe.args.origin
        IN  /\ probe.result \in BOOLEAN
            /\ probe.result <=>
                   \/ entries = {}
                   \/ IsPresent(origin) /\ origin[1] \in entries
            /\ (entries # {} /\ ~IsPresent(origin)) => probe.result = FALSE

\* a list of two entries that differ in letter case only; the header names
\* the second entry and is allowed
C20_Witness ==
    /\ probe.fn = "isOriginAllowed" /\ probe.applied
    /\ Cardinality(AllowlistEntries(probe.args.ALLOWED_ORIGIN)) = 2
    /\ IsPresent(probe.args.origin)
    /\ probe.args.origin[1] # Head(ParseAllowedOrigins(
                                       [NoEnv EXCEPT !.ALLOWED_ORIGIN = probe.args.ALLOWED_ORIGIN]))
    /\ probe.result = TRUE

\* a non-empty list and a header that differs from the entry only by a
\* trailing slash: denied
C20_WitnessDenied ==
    /\ probe.fn = "isOriginAllowed" /\ probe.applied
    /\ AllowlistEntries(probe.args.ALLOWED_ORIGIN) = {<<"h", "t", "t", "p", "s", ":", "/", "/", "a", ".", "e", "x", "a", "m", "p", "l", "e">>}
    /\ probe.args.origin = Some(<<"h", "t", "t", "p", "s", ":", "/", "/", "a", ".", "e", "x", "a", "m", "p", "l", "e", "/">>)
    /\ probe.result = FALSE

\* a non-empty list and no Origin header: denied
C20_WitnessNoHeader ==
    /\ probe.fn = "isOriginAllowed" /\ probe.applied
    /\ AllowlistEntries(probe.args.ALLOWED_ORIGIN) # {}
    /\ ~IsPresent(probe.args.origin)
    /\ probe.result = FALSE
----------------------------------------------------------------------------
(* Content-Length that cannot be used *)

\* the header is there and its value, white space around it aside, is no run
\* of decimal digits (so: empty, signed, with letters) or is a number above
\* Number.MAX_SAFE_INTEGER
MalformedLength(header) ==
    /\ IsPresent(header)
    /\ LET t == Trim(header[1])
       IN  \/ t = <<>>
           \/ \E i \in 1..Len(t) : t[i] \notin Digits
           \/ ~IsSafeInteger(t)

\* the endpoints that look at Content-Length
LengthChecked(q) == q.ep \in {"webhook", "custom-order"}

\* the handler went on to the streamed read of the body
StreamedRead(q) == q.locked \/ q.reads > 0 \/ q.bodyResult # "none"

\* C21: on /webhook and /custom-order a request that reaches the
\* Content-Length check with a header that is non-numeric, negative or no safe
\* integer is answered 400 'Invalid Content-Length header.'; no request with
\* such a header is answered 413 or has its body read; a request without the
\* header that reaches the check goes on to the streamed read.
C21_MalformedLengthRejected ==
    \A r \in DOMAIN req :
        LET q == req[r]
        IN  (LengthChecked(q) /\ q.pc # "idle") =>
                /\ MalformedLength(q.request.contentLength) =>
                       /\ q.pc = "done"
                       /\ q.status # 413
                       /\ ~StreamedRead(q) /\ q.totalBytes = 0
                       /\ PastHeaderChecks(env, q) =>
                              /\ q.status = 400
                              /\ q.message = "Invalid Content-Length header."
                /\ (q.pc = "done" /\ q.message = "Invalid Content-Length header.") =>
                       MalformedLength(q.request.contentLength)
                /\ (~IsPresent(q.request.contentLength) /\ PastHeaderChecks(env, q)) =>
                       StreamedRead(q)

\* a webhook request with a signature and Content-Length 9007199254740992 was
\* answered 400 'Invalid Content-Length header.' with nothing read
C21_Witness ==
    \E r \in DOMAIN req :
        /\ req[r].ep = "webhook"
        /\ req[r].request.contentLength = Some(<<"9", "0", "0", "7", "1", "9", "9", "2", "5", "4", "7", "4", "0", "9", "9", "2">>)
        /\ req[r].pc = "done" /\ req[r].status = 400
        /\ req[r].message = "Invalid Content-Length header."
        /\ req[r].reads = 0

\* a custom-order request with Content-Length -1 was answered the same way
C21_WitnessOrder ==
    \E r \in DOMAIN req :
        /\ req[r].ep = "custom-order"
        /\ req[r].request.contentLength = Some(<<"-", "1">>)
        /\ req[r].pc = "done" /\ req[r].status = 400
        /\ req[r].message = "Invalid Content-Length header."
        /\ req[r].reads = 0

\* a request without Content-Length had its body read chunk by chunk
C21_WitnessAbsent ==
    \E r \in DOMAIN req :
        /\ LengthChecked(req[r])
        /\ ~IsPresent(req[r].request.contentLength)
        /\ req[r].reads > 0 /\ req[r].totalBytes > 0
----------------------------------------------------------------------------
(* readRequestBodyWithLimit: what is buffered *)

\* the endpoints that read their body with readRequestBodyWithLimit, and the
\* maxBytes they pass
BoundedRead(q) == q.ep \in {"webhook", "custom-order"}

\* the chunks of the request's stream the reader has been given so far
Consumed(q) == SubSeq(q.request.stream, 1, Len(q.request.stream) - Len(q.stream))

RECURSIVE DataBytes(_)
DataBytes(stream) ==
    IF stream = <<>> THEN 0 ELSE TextLen(Head(stream).text) + DataBytes(Tail(stream))

RECURSIVE DataText(_)
DataText(stream) ==
    IF stream = <<>> THEN <<>> ELSE Concat(Head(stream).text, DataText(Tail(stream)))

C22_NoReadAfterCancel ==
    [][\A r \in DOMAIN req :
          req[r].cancelled =>
              /\ req'[r].reads = req[r].reads
              /\ req'[r].chunks = req[r].chunks
              /\ req'[r].stream = req[r].stream]_vars

C22_WitnessExact ==
    \E r \in DOMAIN req :
        /\ BoundedRead(req[r])
        /\ req[r].bodyResult = "ok"
        /\ TextLen(req[r].chunks) = Ceiling(req[r].ep)
        /\ ~req[r].locked /\ ~req[r].cancelled
----------------------------------------------------------------------------
(* custom-order: when the email is sent *)

\* an environment variable is set to something other than white space
Configured(value) == IsPresent(value) /\ Trim(value[1]) # <<>>

\* what the request's body says, once it has been read
OrderBody(q) == JsonParse(Utf8String(q.chunks))

C23_WitnessNoEmail ==
    \E r \in DOMAIN req :
        /\ req[r].ep = "custom-order"
        /\ Configured(env.TURNSTILE_SECRET_KEY)
        /\ Configured(env.ORDER_EMAIL) /\ Configured(env.RESEND_API_KEY)
        /\ req[r].captchaCalls = 1 /\ ~req[r].captcha.result.verified
        /\ req[r].pc = "done" /\ req[r].status = 403
        /\ req[r].emailCalls = 0
----------------------------------------------------------------------------
(* validatePayload: which error comes first *)

\* the three required fields of an order are strings with something in them
RequiredPresent(input) ==
    /\ input.t = "obj"
    /\ \A key \in {K_name, K_email, K_productType} :
          Get(input, key).t = "str" /\ Trim(Get(input, key).v) # <<>>

\* a length bound of the required fields is violated
LengthViolated(input) ==
    \/ Len(Trim(Get(input, K_name).v)) < 2
    \/ Len(Trim(Get(input, K_name).v)) > MAX_NAME_LENGTH
    \/ Len(Trim(Get(input, K_email).v)) > MAX_EMAIL_LENGTH
    \/ Len(Trim(Get(input, K_productType).v)) > MAX_PRODUCT_FIELD_LENGTH

\* something@something.something, without white space or a second @
EmailShaped(s) ==
    /\ \A i \in 1..Len(s) : ~IsSpace(s[i])
    /\ \E at \in 1..Len(s) :
          /\ s[at] = "@"
          /\ \A i \in 1..Len(s) : s[i] = "@" => i = at
          /\ at > 1
          /\ \E dot \in (at + 2)..(Len(s) - 1) : s[dot] = "."

\* the item of a cart violates a constraint on its priceId
PriceViolated(item) ==
    \/ Get(item, K_priceId).t # "str"
    \/ ~IsPriceId(Trim(Get(item, K_priceId).v))

ItemViolated(item) ==
    \/ item.t # "obj"
    \/ PriceViolated(item)
    \/ BadQuantity(Get(item, K_quantity))

PriceErrors ==
    {"priceId must be a string.", "priceId must be a non-empty string.",
     "priceId must look like a Stripe Price ID (price_...)."}

\* the order of the custom-order checks: presence and type, length, format
OrderErrorsInOrder ==
    (probe.fn = "validatePayload" /\ probe.applied /\ RequiredPresent(probe.args.input)) =>
        /\ LengthViolated(probe.args.input) =>
               ~probe.result.ok /\ probe.result.error = "Invalid field length."
        /\ (~LengthViolated(probe.args.input)
                /\ ~EmailShaped(Trim(Get(probe.args.input, K_email).v))) =>
               ~probe.result.ok /\ probe.result.error = "Invalid email format."

\* the checkout error names the lowest violating item, priceId before quantity
CartErrorsInOrder ==
    (probe.fn = "checkout.validatePayload" /\ probe.applied) =>
        LET items == Get(probe.args.input, K_items).v
            bad == {i \in 1..Len(items) : ItemViolated(items[i])}
        IN  IF bad = {} THEN probe.result.ok
            ELSE LET first == CHOOSE i \in bad : \A j \in bad : i <= j
                 IN  /\ ~probe.result.ok
                     /\ probe.result.error.index = first - 1
                     /\ items[first].t # "obj" =>
                            probe.result.error.msg = "must be an object."
                     /\ (items[first].t = "obj" /\ PriceViolated(items[first])) =>
                            probe.result.error.msg \in PriceErrors
                     /\ (items[first].t = "obj" /\ ~PriceViolated(items[first])) =>
                            probe.result.error.msg =
                                "quantity must be an integer between 1 and 99."

\* C24: validation returns the error of the first violated constraint in the
\* stated order.  Custom-order: presence and type, then length, then format,
\* so required fields that violate a length bound give 'Invalid field
\* length.' even when the email is malformed too.  Checkout: the error names
\* the lowest-index violating item, its priceId checked before its quantity.
C24_FirstViolationReported == OrderErrorsInOrder /\ CartErrorsInOrder
----------------------------------------------------------------------------
(* webhook: what is handed to constructEvent *)

\* C25: when the webhook body was read, the payload handed to constructEvent
\* is the concatenation, in order, of every chunk of the request's stream,
\* each byte as it was sent, whatever the bytes are; and no event was parsed
\* from the body unless that call succeeded.
C25_RawBodyVerified ==
    \A r \in DOMAIN req :
        LET q == req[r]
        IN  (q.ep = "webhook" /\ q.verifyCalls > 0) =>
                /\ q.bodyResult = "ok"
                /\ q.stream = <<>>
                /\ q.rawBody = DataText(q.request.stream)
                /\ q.event # Undef => q.verified
----------------------------------------------------------------------------
(* rateLimit: bursts *)

\* the largest number of allowed calls of one identifier that fall into one
\* closed time interval of the given length
MostAllowedWithin(allowedAt, length) ==
    LET from(i) == Cardinality({j \in i..Len(allowedAt) :
                                    allowedAt[j] - allowedAt[i] <= length})
    IN  IF allowedAt = <<>> THEN 0
        ELSE from(CHOOSE i \in 1..Len(allowedAt) :
                      \A m \in 1..Len(allowedAt) : from(m) <= from(i))

\* C26: for every identifier, under the one configuration {requests, window}
\* of the run, the calls that returned allowed = true inside any time interval
\* of length window are at most 2 * requests.
C26_BurstAtMostTwice ==
    \A identifier \in DOMAIN rlWin :
        MostAllowedWithin(rlWin[identifier].allowedAt, rlCfg.window) <= 2 * rlCfg.requests

\* what holds of the code for a limit of one or more: one less than twice
\* the limit, the first call of a window being more than a window before the
\* first call of the next
BurstBelowTwice ==
    \A identifier \in DOMAIN rlWin :
        rlCfg.requests >= 1 =>
            MostAllowedWithin(rlWin[identifier].allowedAt, rlCfg.window)
                <= 2 * rlCfg.requests - 1

\* a burst across the boundary: with limit 2, three allowed calls inside one
\* window's length, the last two in a new window
BurstAcrossBoundary ==
    \E identifier \in DOMAIN rlWin :
        /\ rlCfg.requests = 2
        /\ MostAllowedWithin(rlWin[identifier].allowedAt, rlCfg.window) = 3
        /\ rlWin[identifier].k = 2 /\ rlWin[identifier].allowed = 2
----------------------------------------------------------------------------
(* rateLimit: one identifier does not touch another *)

\* the step is a rateLimit call for the identifier
IsCallFor(identifier) ==
    /\ identifier \in DOMAIN rlWin'
    /\ WinOf(rlWin', identifier).total = WinOf(rlWin, identifier).total + 1

\* a call for A leaves every other identifier's entry as it was
CallTouchesOnlyItsEntry ==
    \A a \in RateLimitIds :
        IsCallFor(a) =>
            /\ DOMAIN rateLimitMap' = DOMAIN rateLimitMap \cup {a}
            /\ \A b \in DOMAIN rateLimitMap \ {a} : rateLimitMap'[b] = rateLimitMap[b]

\* first half of C27: a rateLimit call for A changes the entry of no other
\* identifier B (count and resetAt stay), under any interleaving of the two.
C27_OtherEntriesUnchanged == [][CallTouchesOnlyItsEntry]_vars

\* what the observed call returned
ResultOf(call) == [allowed |-> call.allowed, remaining |-> call.remaining,
                   resetAt |-> call.resetAt]

\* the map with every entry but the identifier's own taken away
OwnEntryOnly(map, identifier) == [k \in DOMAIN map \cap {identifier} |-> map[k]]

\* second half of C27: what a call for A returns, and the entry it leaves for
\* A, are those of the same call on a map that holds A's entry alone.
CallReadsOnlyItsEntry ==
    \A a \in RateLimitIds :
        IsCallFor(a) =>
            LET alone == RateLimit(OwnEntryOnly(rateLimitMap, a), a, rlCfg, now)
            IN  /\ ResultOf(rlLast') = alone.result
                /\ rateLimitMap'[a] = alone.map[a]

C27_ResultFromOwnEntry == [][CallReadsOnlyItsEntry]_vars

\* C27: a rateLimit call for identifier A leaves the entry of every other
\* identifier unchanged, and its result depends only on A's own earlier
\* calls, the config and the time, under any interleaving of identifiers.
C27_IdentifiersIsolated == C27_OtherEntriesUnchanged /\ C27_ResultFromOwnEntry

\* A was denied while B, called in between at the same times, still had quota
C27_Witness ==
    \E a, b \in DOMAIN rlWin :
        /\ a # b
        /\ rlLast.id = a /\ ~rlLast.allowed /\ rlWin[a].total >= 2
        /\ rlWin[b].total >= 1 /\ rlWin[b].allowed >= 1
        /\ b \in DOMAIN rateLimitMap /\ a \in DOMAIN rateLimitMap
        /\ rateLimitMap[b].count < rateLimitMap[a].count
----------------------------------------------------------------------------
(* rateLimit: the periodic sweep *)

\* the step is a run of the setInterval callback that deleted something
IsSweep == rateLimitMap' # rateLimitMap /\ rlWin' = rlWin

\* the sweep deletes the entries with resetAt < now and no others, and
\* leaves the entries it keeps as they were
SweepDeletesExpiredOnly ==
    IsSweep =>
        /\ DOMAIN rateLimitMap' = {k \in DOMAIN rateLimitMap : rateLimitMap[k].resetAt >= now}
        /\ \A k \in DOMAIN rateLimitMap' : rateLimitMap'[k] = rateLimitMap[k]

\* a call returns what it would have returned had no sweep ever run
CallAsUnswept ==
    \A a \in RateLimitIds :
        IsCallFor(a) =>
            ResultOf(rlLast') = UnsweptCall(WinOf(rlWin, a), rlCfg, now).result

\* the map is the never-swept one less entries that have expired
SweptOnlyExpired ==
    \A a \in DOMAIN rlWin :
        IF a \in DOMAIN rateLimitMap
        THEN rateLimitMap[a] = rlWin[a].unswept
        ELSE rlWin[a].unswept.resetAt < now

\* C28: the sweep deletes exactly the entries whose resetAt is earlier than
\* the sweep time, and sweeps run at arbitrary points between the calls never
\* change what a rateLimit call returns (allowed, remaining, resetAt) compared
\* with a run with no sweeps.
C28_SweepInvisible ==
    [][SweepDeletesExpiredOnly /\ CallAsUnswept]_vars /\ []SweptOnlyExpired

\* a sweep has deleted A's expired entry and kept B's, which ends now or later
C28_Witness ==
    \E a, b \in DOMAIN rlWin :
        /\ a \notin DOMAIN rateLimitMap /\ rlWin[a].unswept.resetAt < now
        /\ b \in DOMAIN rateLimitMap /\ rateLimitMap[b].resetAt = now

\* a call was made after the sweep had deleted the identifier's entry, and
\* opened a window as it would have with the expired entry still there
C28_WitnessCallAfterSweep ==
    \E a \in DOMAIN rlWin :
        /\ rlLast.id = a /\ rlLast.k = 1 /\ rlWin[a].total >= 2
        /\ rlLast.t = now /\ rlLast.allowed
        /\ \E b \in DOMAIN rlWin : b \notin DOMAIN rateLimitMap
----------------------------------------------------------------------------
(* rateLimit: the reset time of a window *)

\* while a window lasts (now <= resetAt) no step changes its resetAt or
\* removes the entry: a denied call does not postpone the reset
ResetAtFixedInWindow ==
    \A a \in DOMAIN rateLimitMap :
        now <= rateLimitMap[a].resetAt =>
            /\ a \in DOMAIN rateLimitMap'
            /\ rateLimitMap'[a].resetAt = rateLimitMap[a].resetAt

\* the call opened a new window for the identifier
OpensWindow(a) ==
    /\ rlLast'.allowed
    /\ rlLast'.resetAt = now + rlCfg.window
    /\ rateLimitMap'[a] = [count |-> 1, resetAt |-> now + rlCfg.window]

\* the caller's last call was denied and its next call is made now
RetryAfterDenial(a) ==
    /\ IsCallFor(a)
    /\ rlLast.id = a /\ ~rlLast.allowed
    /\ rlCfg.requests >= 1

\* C29: within one window the resetAt of an identifier's entry never changes,
\* so denied requests do not postpone the reset; and a caller denied with
\* resetAt = R whose next request comes at any time t >= R, the limit being 1
\* or more, is allowed and starts a new window with count 1 and resetAt
\* t + window.
C29_RetryAtResetAllowed ==
    [][/\ ResetAtFixedInWindow
       /\ \A a \in RateLimitIds :
              (RetryAfterDenial(a) /\ now >= rlLast.resetAt) => OpensWindow(a)]_vars

\* what the code does: the retry opens a window when it comes after R, and
\* is denied again, with the same resetAt, when it comes at R or before
RetryAfterResetAllowed ==
    [][/\ ResetAtFixedInWindow
       /\ \A a \in RateLimitIds :
              /\ (RetryAfterDenial(a) /\ now > rlLast.resetAt) => OpensWindow(a)
              /\ (RetryAfterDenial(a) /\ now <= rlLast.resetAt) =>
                     /\ ~rlLast'.allowed
                     /\ rlLast'.resetAt = rlLast.resetAt]_vars

\* a caller denied with resetAt = R was denied again at time R
RetryAtResetDenied ==
    \E a \in DOMAIN rlWin :
        /\ rlLast.id = a /\ ~rlLast.allowed /\ rlLast.requests >= 1
        /\ rlLast.t = rlLast.resetAt /\ rlLast.k >= 3

\* a caller denied in one window was allowed after its resetAt
RetryAfterResetWitness ==
    \E a \in DOMAIN rlWin :
        /\ rlLast.id = a /\ rlLast.allowed /\ rlLast.k = 1
        /\ rlWin[a].total >= 3 /\ rlLast.requests = 1
        /\ rlLast.resetAt = rlLast.t + rlCfg.window
----------------------------------------------------------------------------
(* getStripeClient called directly, process.env changing between the calls *)

\* what process.env.STRIPE_SECRET_KEY may hold: unset, empty, one key, another
SecretKeys ==
    {Absent, Some(<<>>), Some(<<"s", "k", "_", "t", "e", "s", "t", "_", "1">>), Some(<<"s", "k", "_", "t", "e", "s", "t", "_", "2">>)}

\* the calls made so far, oldest first, each with the key it found, the
\* module's client before and after it, and whether it threw
NoClientCalls ==
    [fn |-> "getStripeClient", args |-> <<>>, applied |-> FALSE, result |-> <<>>]

InitStripe ==
    /\ AtRest
    /\ probe = NoClientCalls

\* process.env.STRIPE_SECRET_KEY is set or deleted
SetSecretKey(key) ==
    /\ env.STRIPE_SECRET_KEY # key
    /\ env' = [env EXCEPT !.STRIPE_SECRET_KEY = key]
    /\ UNCHANGED <<probe, now, rateLimitMap, rlCfg, rlLast, rlWin, stripeClient,
                   sessions, nextSession, req>>

\* getStripeClient() is called
CallGetStripeClient ==
    /\ Len(probe.result) < MaxClientCalls
    /\ LET out == GetStripeClient(env, stripeClient)
       IN  /\ stripeClient' = out.cell
           /\ probe' = [probe EXCEPT
                  !.applied = TRUE,
                  !.result = Append(@, [key |-> env.STRIPE_SECRET_KEY,
                                        before |-> stripeClient,
                                        threw |-> out.threw,
                                        after |-> out.cell])]
    /\ UNCHANGED <<env, now, rateLimitMap, rlCfg, rlLast, rlWin, sessions,
                   nextSession, req>>

NextStripe ==
    \/ \E key \in SecretKeys : SetSecretKey(key)
    \/ CallGetStripeClient

SpecStripe == InitStripe /\ [][NextStripe]_vars

\* the calls that constructed a client: they left another client in the
\* module than they found
Constructions(calls) == {i \in 1..Len(calls) : calls[i].after # calls[i].before}

\* the calls that returned a client
Successes(calls) == {i \in 1..Len(calls) : ~calls[i].threw}

\* C30: over any sequence of getStripeClient calls in one process the client
\* is constructed at most once, every successful call returns that same
\* handle, and a call made while STRIPE_SECRET_KEY is missing fails without
\* constructing or replacing the handle.
C30_ClientConstructedOnce ==
    LET calls == probe.result
    IN  probe.fn = "getStripeClient" =>
            /\ Cardinality(Constructions(calls)) <= 1
            /\ \A i, j \in Successes(calls) :
                   /\ IsPresent(calls[i].after)
                   /\ calls[i].after = calls[j].after
            /\ \A i \in 1..Len(calls) :
                   /\ calls[i].threw <=> Falsy(calls[i].key)
                   /\ calls[i].threw => calls[i].after = calls[i].before
            /\ (calls # <<>> => stripeClient = calls[Len(calls)].after)

\* a client built under one key was returned again under another key, after
\* a call that failed for want of the key
C30_Witness ==
    LET calls == probe.result
    IN  /\ probe.fn = "getStripeClient" /\ Len(calls) = MaxClientCalls
        /\ ~calls[1].threw /\ calls[2].threw /\ ~calls[3].threw
        /\ calls[2].key = Absent /\ IsPresent(calls[2].before)
        /\ calls[3].key # calls[1].key
        /\ calls[3].after = calls[1].after

\* a call without the key before any client exists
C30_WitnessNoClient ==
    LET calls == probe.result
    IN  /\ probe.fn = "getStripeClient" /\ Len(calls) >= 2
        /\ calls[1].threw /\ calls[1].after = Absent
        /\ ~calls[2].threw

\* in the handlers: once the module holds a client no step replaces it
ClientNeverReplaced == [][IsPresent(stripeClient) => stripeClient' = stripeClient]_vars

====
